---------------------------- MODULE Spec2Model ----------------------------
(***************************************************************************)
(* State-machine model of the gb emulator core (mj-hd/gb): CPU             *)
(* fetch/decode/execute with interrupt dispatch, the Bus address           *)
(* dispatcher, the PPU timing state machine, the Timer, the Joypad latch   *)
(* and the cartridge controllers.  Every public operation of a component   *)
(* is one action; the component state is kept in one record per Rust       *)
(* struct, with the struct's field names.                                  *)
(*                                                                         *)
(* Byte arrays (work RAM, high RAM, video RAM, cartridge RAM, ROM image)   *)
(* are zero-initialised arrays in the source; they are represented         *)
(* sparsely as functions from the indices holding a non-zero byte.         *)
(*                                                                         *)
(* The pixel pipeline outputs of Ppu::tick (bg_line, oam_line, cur_bg,     *)
(* pixels) are write-only with respect to the timing, interrupt and        *)
(* sprite-selection state and are not part of the state below.  The        *)
(* debugger prompt of Cpu::tick (stepping, breakpoints, trace_left) only   *)
(* blocks on the terminal and prints; it is not part of the state either.  *)
(***************************************************************************)
EXTENDS Integers, Sequences, FiniteSets, TLC

VARIABLES cpu, bus, ppu, timer, joypad, mbc, rom, op, ev, pticks, rises, nsteps, nops

vars == <<cpu, bus, ppu, timer, joypad, mbc, rom, op, ev, pticks, rises, nsteps, nops>>

(***************************************************************************)
(* Bounds of the model                                                     *)
(***************************************************************************)
\* number of whole frames SpecPpu lets the PPU run
MaxFrames == 1
\* number of Cpu::tick and Gb::tick calls in a behaviour of Spec
MaxSteps == 9
\* number of peripheral and host operations interleaved in a behaviour of Spec
MaxPeripheralOps == 2
\* largest value of the free-running counter reached by ticks in SpecTimer
MaxCounter == 40
\* largest value of the free-running counter reached by ticks in SpecTimerRun
MaxCounterRun == 1030
\* number of register writes in a behaviour of SpecTimerRun
MaxRunWrites == 3
\* number of operations a behaviour of SpecPpuIrq performs
MaxIrqSteps == 24

\* Cpu::tick calls in a behaviour of SpecInstr
MaxInstrSteps == 2

\* Bus operations in a behaviour of SpecBus
MaxBusSteps == 2

\* Ppu::tick calls in a behaviour of SpecOam
MaxOamTicks == 540

\* cartridge writes in a behaviour of SpecMbc
MaxMbcSteps == 4

\* Gb::tick calls in a behaviour of SpecHaltRun: more than one frame
MaxHaltRunTicks == 35200

(***************************************************************************)
(* Bit helpers (u8/u16 arithmetic of the source)                           *)
(***************************************************************************)
Pow2(n) == 2 ^ n

Bit(v, i) == (v \div Pow2(i)) % 2

U8(v) == v % 256

U16(v) == v % 65536

\* bits hi..lo of v, as the bitmatch patterns extract a field
Field(v, hi, lo) == (v \div Pow2(lo)) % Pow2(hi - lo + 1)

BoolBit(b) == IF b THEN 1 ELSE 0

\* the element of a one-element set: Only({F(x) : x \in {e}}) is F applied to
\* the value of e
Only(S) == CHOOSE x \in S : TRUE

\* sparse zero-initialised byte arrays
EmptyMem == [x \in {} |-> 0]

MemRd(mem, a) == IF a \in DOMAIN mem THEN mem[a] ELSE 0

MemWr(mem, a, v) ==
    IF v = 0
    THEN [x \in (DOMAIN mem) \ {a} |-> mem[x]]
    ELSE [x \in (DOMAIN mem) \cup {a} |-> IF x = a THEN v ELSE mem[x]]

(***************************************************************************)
(* Timer (timer.rs)                                                        *)
(***************************************************************************)
TimerDefault ==
    [counter |-> 0, tima |-> 0, tma |-> 0, enable |-> FALSE, clock |-> 0,
     prev |-> FALSE, int |-> FALSE]

\* the counter bit selected by the clock-select value
ClockBit(clock) ==
    CASE clock = 0 -> 9
      [] clock = 1 -> 3
      [] clock = 2 -> 5
      [] clock = 3 -> 7

TimerCur(t) == t.enable /\ Bit(t.counter, ClockBit(t.clock)) = 1

TimerEdge(t) == t.prev /\ ~TimerCur(t)

\* the overflow test of sync, evaluated after the increment
ReloadCond(t) == t.counter % 4 = 0 /\ t.tima = 0

\* sync, with what its edge detection did: t is the resulting timer, edge
\* whether a 1-to-0 transition was seen, wrapped whether the increment took
\* TIMA from 0xFF to 0, reloaded whether the overflow branch ran
TimerSyncEv(t) ==
    LET cur  == TimerCur(t)
        edge == TimerEdge(t)
        inc  == [t EXCEPT !.tima = U8(t.tima + 1)]
        rel  == edge /\ ReloadCond(inc)
        t1   == IF edge
                THEN IF rel
                     THEN [inc EXCEPT !.tima = inc.tma, !.int = TRUE]
                     ELSE inc
                ELSE t
    IN [t |-> [t1 EXCEPT !.prev = cur], edge |-> edge,
        wrapped |-> edge /\ t.tima = 255, reloaded |-> rel]

TimerSync(t) == TimerSyncEv(t).t

TimerTick(t) == TimerSync([t EXCEPT !.counter = U16(t.counter + 1)])

TimerReadDiv(t) == t.counter \div 256

TimerWriteDiv(t, val) == [t EXCEPT !.counter = 0]

TimerWriteTima(t, val) == [TimerSync(t) EXCEPT !.tima = val]

TimerWriteTma(t, val) == TimerSync([t EXCEPT !.tma = val])

TimerReadTac(t) == BoolBit(t.enable) * 4 + t.clock

TimerWriteTac(t, val) ==
    [t EXCEPT !.enable = (Bit(val, 2) = 1), !.clock = Field(val, 1, 0)]

(***************************************************************************)
(* PPU (ppu.rs)                                                            *)
(***************************************************************************)
DotsPerLine == 456

LinesPerFrame == 154

VBlankLine == 144

\* Palette::from(u8): the four 2-bit entries, lowest bits first
PaletteFrom(val) ==
    <<Field(val, 1, 0), Field(val, 3, 2), Field(val, 5, 4), Field(val, 7, 6)>>

\* u8::from(Palette)
PaletteInto(p) == p[1] + 4 * p[2] + 16 * p[3] + 64 * p[4]

PpuNew ==
    [vram |-> EmptyMem, mode |-> "VBlank", lcd_control |-> 0, lcd_status |-> 0,
     window_x |-> 0, window_y |-> 0, scroll_x |-> 0, scroll_y |-> 0,
     cycles |-> 0, lines |-> 0, lines_compare |-> 0,
     bg_palette |-> PaletteFrom(0), object_palette_0 |-> PaletteFrom(0),
     object_palette_1 |-> PaletteFrom(0),
     x |-> 0, y |-> 0, int_v_blank |-> FALSE, int_lcd_stat |-> FALSE,
     oam |-> EmptyMem, drawing_window |-> FALSE, buffer |-> <<>>,
     oam_line |-> EmptyMem]

\* LcdControl bit accessors
BgWinEnable(p) == Bit(p.lcd_control, 0) = 1

SpriteEnable(p) == Bit(p.lcd_control, 1) = 1

SpriteSize(p) == Bit(p.lcd_control, 2) = 1

WindowDisplayEnable(p) == Bit(p.lcd_control, 5) = 1

\* entry i of the sprite table (the oam array keeps 4 bytes per entry)
OamEntry(p, i) ==
    [y_pos |-> MemRd(p.oam, 4 * i), x_pos |-> MemRd(p.oam, 4 * i + 1),
     tile_num |-> MemRd(p.oam, 4 * i + 2), sprite_flag |-> MemRd(p.oam, 4 * i + 3)]

\* OamColor::default, the value of every pixel of oam_line not drawn on
OamColorDefault == [index |-> 0, color |-> 0, blend |-> FALSE]

\* oam_line keeps the pixels that differ from the default
OamLineRd(line, x) == IF x \in DOMAIN line THEN line[x] ELSE OamColorDefault

\* oam_line[x..(x + 8)].copy_from_slice(colors)
CopyColors(line, x, colors) ==
    LET at(k) == IF k \in x..(x + 7) THEN colors[k - x + 1] ELSE line[k]
    IN [k \in {j \in DOMAIN line \cup (x..(x + 7)) : at(j) # OamColorDefault} |-> at(k)]

\* tile_to_indexes: the eight 2-bit colour indexes of a row of a tile, the
\* first byte of the row giving the high bit of each
TileToIndexes(p, tile_num, row, signed) ==
    LET base_addr  == IF signed THEN 4096 ELSE 0
        sext       == IF tile_num >= 128 THEN tile_num - 256 ELSE tile_num
        index_addr == IF signed THEN U16(65536 + row * 2 + sext * 16)
                      ELSE row * 2 + tile_num * 16
        addr  == U16(base_addr + index_addr)
        bit   == MemRd(p.vram, addr)
        color == MemRd(p.vram, addr + 1)
    IN [j \in 1..8 |-> 2 * Bit(bit, 8 - j) + Bit(color, 8 - j)]

\* OamColor::from_indexes
FromIndexes(indexes, blend, palette) ==
    [j \in 1..8 |-> [index |-> indexes[j], color |-> palette[indexes[j] + 1],
                     blend |-> blend]]

\* the row and the tile oam_to_colors decodes for a buffered entry; the
\* mask of the else branch is the 7-bit literal 0b1111110
SpriteTile(p, oam) ==
    LET row == U8(p.y + 16 - oam.y_pos)
        low == SpriteSize(p) /\ row >= 8
        r1  == IF low THEN row - 8 ELSE row
    IN [tile |-> IF low
                 THEN oam.tile_num + 1 - (oam.tile_num % 2)
                 ELSE (oam.tile_num % 128) - (oam.tile_num % 2),
        row  |-> IF Bit(oam.sprite_flag, 6) = 1 THEN U8(7 - r1) ELSE r1]

\* oam_to_colors
OamToColors(p, oam) ==
    LET t       == SpriteTile(p, oam)
        palette == IF Bit(oam.sprite_flag, 4) = 1 THEN p.object_palette_1
                   ELSE p.object_palette_0
        colors  == FromIndexes(TileToIndexes(p, t.tile, t.row, FALSE),
                               Bit(oam.sprite_flag, 7) = 1, palette)
    IN IF Bit(oam.sprite_flag, 5) = 1 THEN [j \in 1..8 |-> colors[9 - j]] ELSE colors

\* draw_sprite, from entry k of the buffer on
RECURSIVE DrawSpriteFrom(_, _)
DrawSpriteFrom(p, k) ==
    IF k > Len(p.buffer)
    THEN p
    ELSE LET oam == p.buffer[k]
         IN DrawSpriteFrom(IF oam.x_pos = p.x + 8
                           THEN [p EXCEPT !.oam_line =
                                     CopyColors(p.oam_line, p.x, OamToColors(p, oam))]
                           ELSE p,
                           k + 1)

DrawSprite(p) == DrawSpriteFrom(p, 1)

MaxSprites == 10

\* a scan that still keeps an entry when ten are kept
ScanOamOneMore(p, i) ==
    LET size     == IF SpriteSize(p) THEN 16 ELSE 8
        oam      == OamEntry(p, i)
        cur_y    == p.lines + 16
        target_y == oam.y_pos
    IN IF /\ oam.x_pos > 8
          /\ cur_y < target_y + size
          /\ target_y <= cur_y
          /\ Len(p.buffer) <= MaxSprites
       THEN [p EXCEPT !.buffer = Append(p.buffer, oam)]
       ELSE p

ScanOam(p, i) ==
    LET size     == IF SpriteSize(p) THEN 16 ELSE 8
        oam      == OamEntry(p, i)
        cur_y    == p.lines + 16
        target_y == oam.y_pos
    IN IF /\ oam.x_pos > 8
          /\ cur_y < target_y + size
          /\ target_y <= cur_y
          /\ Len(p.buffer) < MaxSprites
       THEN [p EXCEPT !.buffer = Append(p.buffer, oam)]
       ELSE p

\* draw_window, as far as it changes the window latch
DrawWindow(p) ==
    IF ~p.drawing_window /\ ~(p.x + 7 = p.window_x /\ p.y >= p.window_y)
    THEN p
    ELSE [p EXCEPT !.drawing_window = TRUE]

\* the position update at the head of tick
PpuAdvance(p) ==
    LET c1  == p.cycles + 1
        wl  == c1 >= DotsPerLine
        p1  == IF wl
               THEN [p EXCEPT !.cycles = 0, !.lines = p.lines + 1, !.buffer = <<>>,
                              !.oam_line = EmptyMem]
               ELSE [p EXCEPT !.cycles = c1]
        p2  == IF p1.lines >= LinesPerFrame THEN [p1 EXCEPT !.lines = 0] ELSE p1
        p3  == IF p2.cycles = 80 THEN [p2 EXCEPT !.x = 0] ELSE p2
    IN IF p3.lines = 0 THEN [p3 EXCEPT !.y = 0] ELSE p3

\* a mode selection that leaves OAM scan one dot late
PpuVisibleLate(p) ==
    IF p.lines < VBlankLine
    THEN LET q == [p EXCEPT !.y = p.lines]
         IN CASE q.cycles <= 80 -> [q EXCEPT !.mode = "OamScan"]
              [] q.cycles = 81 -> [q EXCEPT !.mode = "Drawing"]
              [] q.cycles >= 82 /\ q.cycles <= 239 -> [q EXCEPT !.x = q.x + 1]
              [] q.cycles >= 240 /\ q.cycles <= 455 ->
                     [q EXCEPT !.mode = "HBlank", !.drawing_window = FALSE]
              [] OTHER -> q
    ELSE p

\* the mode selection of tick inside the visible lines
PpuVisible(p) ==
    IF p.lines < VBlankLine
    THEN LET q == [p EXCEPT !.y = p.lines]
         IN CASE q.cycles <= 79 -> [q EXCEPT !.mode = "OamScan"]
              [] q.cycles = 80 -> [q EXCEPT !.mode = "Drawing"]
              [] q.cycles >= 81 /\ q.cycles <= 239 -> [q EXCEPT !.x = q.x + 1]
              [] q.cycles >= 240 /\ q.cycles <= 455 ->
                     [q EXCEPT !.mode = "HBlank", !.drawing_window = FALSE]
              [] OTHER -> q
    ELSE p

\* a vertical blank raised on every line up to line 144
PpuVBlankEarly(p) ==
    IF p.lines <= VBlankLine
    THEN [p EXCEPT !.mode = "VBlank", !.int_v_blank = TRUE]
    ELSE p

\* entering the vertical blank
PpuVBlank(p) ==
    IF p.lines = VBlankLine
    THEN [p EXCEPT !.mode = "VBlank", !.int_v_blank = TRUE]
    ELSE p

\* the per-mode work at the tail of tick
PpuModeWork(p) ==
    CASE p.mode = "Drawing" ->
             LET q == IF BgWinEnable(p) /\ WindowDisplayEnable(p) THEN DrawWindow(p)
                      ELSE p
             IN IF SpriteEnable(q) THEN DrawSprite(q) ELSE q
      [] p.mode = "OamScan" ->
             IF p.cycles % 2 = 0 THEN ScanOam(p, p.cycles \div 2) ELSE p
      [] OTHER -> p

PpuTick(p) == PpuModeWork(PpuVBlank(PpuVisible(PpuAdvance(p))))

PpuRead(p, addr) == MemRd(p.vram, addr - 32768)

\* a video RAM that drops writes while the PPU is drawing
PpuWriteBlocked(p, addr, val) ==
    IF p.mode = "Drawing" THEN p ELSE [p EXCEPT !.vram = MemWr(p.vram, addr - 32768, val)]

PpuWrite(p, addr, val) == [p EXCEPT !.vram = MemWr(p.vram, addr - 32768, val)]

PpuReadOam(p, addr) == MemRd(p.oam, addr - 65024)

PpuWriteOam(p, addr, val) == [p EXCEPT !.oam = MemWr(p.oam, addr - 65024, val)]

(***************************************************************************)
(* Joypad (joypad.rs)                                                      *)
(***************************************************************************)
JoypadKeys == {"A", "B", "Up", "Down", "Left", "Right", "Select", "Start"}

JoypadDefault ==
    [up |-> FALSE, down |-> FALSE, left |-> FALSE, right |-> FALSE,
     a |-> FALSE, b |-> FALSE, start |-> FALSE, select |-> FALSE,
     direction |-> FALSE, button |-> FALSE, int |-> FALSE]

\* the latch of a key set to val
SetKey(j, key, val) ==
    CASE key = "A" -> [j EXCEPT !.a = val]
      [] key = "B" -> [j EXCEPT !.b = val]
      [] key = "Select" -> [j EXCEPT !.select = val]
      [] key = "Start" -> [j EXCEPT !.start = val]
      [] key = "Up" -> [j EXCEPT !.up = val]
      [] key = "Down" -> [j EXCEPT !.down = val]
      [] key = "Right" -> [j EXCEPT !.right = val]
      [] key = "Left" -> [j EXCEPT !.left = val]

JoypadPress(j, key) == [SetKey(j, key, TRUE) EXCEPT !.int = TRUE]

\* a release that also withdraws the interrupt request
JoypadReleaseClearsInt(j, key) == [SetKey(j, key, FALSE) EXCEPT !.int = FALSE]

JoypadRelease(j, key) == SetKey(j, key, FALSE)

\* bitpack "110dseba"
JoypadReadButton(j) ==
    192 + 16 * BoolBit(~j.direction) + 8 * BoolBit(~j.start)
        + 4 * BoolBit(~j.select) + 2 * BoolBit(~j.b) + BoolBit(~j.a)

\* bitpack "11b0dulr"
JoypadReadDirection(j) ==
    192 + 32 * BoolBit(~j.button) + 8 * BoolBit(~j.down)
        + 4 * BoolBit(~j.up) + 2 * BoolBit(~j.left) + BoolBit(~j.right)

JoypadRead(j) ==
    IF j.direction THEN JoypadReadDirection(j)
    ELSE IF j.button THEN JoypadReadButton(j)
    ELSE 255

JoypadWrite(j, val) ==
    [j EXCEPT !.direction = (Bit(val, 4) = 0), !.button = (Bit(val, 5) = 0)]

(***************************************************************************)
(* Cartridge controllers (mbc.rs)                                          *)
(***************************************************************************)
RECURSIVE OrBits(_, _, _)
OrBits(a, b, i) ==
    IF i < 0 THEN 0
    ELSE (IF Bit(a, i) = 1 \/ Bit(b, i) = 1 THEN Pow2(i) ELSE 0) + OrBits(a, b, i - 1)

\* a | b on bytes
Or8(a, b) == OrBits(a, b, 7)

Max(a, b) == IF a >= b THEN a ELSE b

RomBankSize == 16384

RamBankSize == 8192

\* new_mbc: the controller for a ROM image r = [mbc_type, data, size]
MbcNew(r) ==
    [kind |-> r.mbc_type, ram |-> EmptyMem, rom_bank |-> 1, ram_bank |-> 0,
     enable_ram |-> TRUE, select_mode |-> "ROM"]

\* rom.data[i]
RomData(r, i) == MemRd(r.data, i)

RomOnlyRead(c, r, addr) ==
    IF addr >= 40960 THEN MemRd(c.ram, addr - 40960) ELSE RomData(r, addr)

RomOnlyWrite(c, addr, val) ==
    IF addr >= 40960 THEN [c EXCEPT !.ram = MemWr(c.ram, addr - 40960, val)] ELSE c

\* the length of the cartridge RAM array of Mbc1
RamSize == 32768

\* base_addr + index_addr of read_rom_from_bank: the place in rom.data that a
\* read of addr in 0x4000..0x7FFF takes its byte from
RomIndex(c, addr) == c.rom_bank * RomBankSize + (addr - 16384)

\* base_addr + index_addr of read_ram_from_bank and write_ram_into_bank
RamIndex(c, addr) == c.ram_bank * RamBankSize + (addr - 40960)

\* a bank window that counts its banks from the selected number less one
ReadRomFromBankBelow(c, r, addr) ==
    RomData(r, (c.rom_bank - 1) * RomBankSize + (addr - 16384))

ReadRomFromBank(c, r, addr) == RomData(r, RomIndex(c, addr))

ReadRamFromBank(c, addr) ==
    IF ~c.enable_ram THEN 0
    ELSE MemRd(c.ram, RamIndex(c, addr))

WriteRamIntoBank(c, addr, val) ==
    IF ~c.enable_ram THEN c
    ELSE [c EXCEPT !.ram = MemWr(c.ram, RamIndex(c, addr), val)]

Mbc1Read(c, r, addr) ==
    CASE addr <= 16383 -> RomData(r, addr)
      [] addr >= 16384 /\ addr <= 32767 -> ReadRomFromBank(c, r, addr)
      [] addr >= 40960 /\ addr <= 49151 -> ReadRamFromBank(c, addr)
      [] OTHER -> 0

\* a RAM enable that wants the whole byte to be 0x0A
RamEnableExact(val) == val = 10

\* the RAM enable test of Mbc1::write
RamEnable(val) == val % 16 = 10

\* a bank number taken as written
RomBankLowUnclamped(val) == val % 32

\* the ROM bank number of Mbc1::write
RomBankLow(val) == Max(val % 32, 1)

Mbc1Write(c, addr, val) ==
    CASE addr <= 8191 -> [c EXCEPT !.enable_ram = RamEnable(val)]
      [] addr >= 8192 /\ addr <= 16383 -> [c EXCEPT !.rom_bank = RomBankLow(val)]
      [] addr >= 16384 /\ addr <= 24575 ->
             IF c.select_mode = "ROM"
             THEN [c EXCEPT !.rom_bank = Or8(c.rom_bank, U8(Max(val % 4, 1) * 32))]
             ELSE [c EXCEPT !.ram_bank = val % 4]
      [] addr >= 24576 /\ addr <= 32767 ->
             [c EXCEPT !.select_mode = IF val = 1 THEN "RAM" ELSE "ROM"]
      [] OTHER -> WriteRamIntoBank(c, addr, val)

MbcRead(c, r, addr) ==
    IF c.kind = "RomOnly" THEN RomOnlyRead(c, r, addr) ELSE Mbc1Read(c, r, addr)

MbcWrite(c, addr, val) ==
    IF c.kind = "RomOnly" THEN RomOnlyWrite(c, addr, val) ELSE Mbc1Write(c, addr, val)

(***************************************************************************)
(* Bus (bus.rs).  A machine m is the record of the whole emulator: the     *)
(* Cpu registers (m.cpu), the Bus's own fields (m.bus), the components     *)
(* the Bus owns (m.ppu, m.timer, m.joypad, m.mbc), the ROM image (m.rom)   *)
(* and the set of addresses written through Bus::write (m.writes).         *)
(***************************************************************************)
BusNew == [ram |-> EmptyMem, hram |-> EmptyMem, ie |-> 0,
           prev_serial |-> FALSE, int_serial |-> FALSE]

InRange(addr, lo, hi) == addr >= lo /\ addr <= hi

\* Bus::read_irq, bitpack "000jstlv"
ReadIrq(m) ==
    BoolBit(m.ppu.int_v_blank) + 2 * BoolBit(m.ppu.int_lcd_stat)
      + 4 * BoolBit(m.timer.int) + 8 * BoolBit(m.bus.int_serial)
      + 16 * BoolBit(m.joypad.int)

\* Bus::write_irq, bitmatch "???jstlv"
WriteIrq(m, val) ==
    [m EXCEPT !.ppu.int_v_blank = (Bit(val, 0) > 0),
              !.ppu.int_lcd_stat = (Bit(val, 1) > 0),
              !.timer.int = (Bit(val, 2) > 0),
              !.bus.int_serial = (Bit(val, 3) > 0),
              !.joypad.int = (Bit(val, 4) > 0)]

\* Bus::write_serial_ctrl, bitmatch "s??????i"
WriteSerialCtrl(m, val) ==
    LET cur == Bit(val, 7) > 0
    IN [m EXCEPT !.bus.int_serial = IF m.bus.prev_serial /\ ~cur THEN TRUE ELSE @,
                 !.bus.prev_serial = cur]

BusRead(m, addr) ==
    CASE InRange(addr, 0, 32767) -> MbcRead(m.mbc, m.rom, addr)
      [] InRange(addr, 32768, 40959) -> PpuRead(m.ppu, addr)
      [] InRange(addr, 40960, 49151) -> MbcRead(m.mbc, m.rom, addr)
      [] InRange(addr, 49152, 57343) -> MemRd(m.bus.ram, addr - 49152)
      [] InRange(addr, 57344, 65023) -> MemRd(m.bus.ram, addr - 57344)
      [] InRange(addr, 65024, 65183) -> PpuReadOam(m.ppu, addr)
      [] InRange(addr, 65184, 65279) -> 0
      [] addr = 65280 -> JoypadRead(m.joypad)
      [] addr = 65281 -> 0
      [] addr = 65282 -> 0
      [] addr = 65284 -> TimerReadDiv(m.timer)
      [] addr = 65285 -> m.timer.tima
      [] addr = 65286 -> m.timer.tma
      [] addr = 65287 -> TimerReadTac(m.timer)
      [] addr = 65295 -> ReadIrq(m)
      [] addr = 65344 -> m.ppu.lcd_control
      [] addr = 65345 -> m.ppu.lcd_status
      [] addr = 65346 -> m.ppu.scroll_y
      [] addr = 65347 -> m.ppu.scroll_x
      [] addr = 65348 -> m.ppu.lines
      [] addr = 65349 -> m.ppu.lines_compare
      [] addr = 65351 -> PaletteInto(m.ppu.bg_palette)
      [] addr = 65352 -> PaletteInto(m.ppu.object_palette_0)
      [] addr = 65353 -> PaletteInto(m.ppu.object_palette_1)
      [] addr = 65354 -> m.ppu.window_y
      [] addr = 65355 -> m.ppu.window_x
      [] InRange(addr, 65408, 65534) -> MemRd(m.bus.hram, addr - 65408)
      [] addr = 65535 -> m.bus.ie
      [] OTHER -> 0

\* Bus::read_word; addr + 1 is taken modulo 2^16 (a release build)
BusReadWord(m, addr) == BusRead(m, U16(addr + 1)) * 256 + BusRead(m, addr)

\* the store of Bus::write, by address range
BusStore(m, addr, val) ==
    CASE InRange(addr, 0, 32767) -> [m EXCEPT !.mbc = MbcWrite(m.mbc, addr, val)]
      [] InRange(addr, 32768, 40959) -> [m EXCEPT !.ppu = PpuWrite(m.ppu, addr, val)]
      [] InRange(addr, 40960, 49151) -> [m EXCEPT !.mbc = MbcWrite(m.mbc, addr, val)]
      [] InRange(addr, 49152, 57343) ->
             [m EXCEPT !.bus.ram = MemWr(m.bus.ram, addr - 49152, val)]
      [] InRange(addr, 57344, 65023) ->
             [m EXCEPT !.bus.ram = MemWr(m.bus.ram, addr - 57344, val)]
      [] InRange(addr, 65024, 65183) -> [m EXCEPT !.ppu = PpuWriteOam(m.ppu, addr, val)]
      [] InRange(addr, 65184, 65279) -> m
      [] addr = 65280 -> [m EXCEPT !.joypad = JoypadWrite(m.joypad, val)]
      [] addr = 65281 -> m
      [] addr = 65282 -> WriteSerialCtrl(m, val)
      [] addr = 65284 -> [m EXCEPT !.timer = TimerWriteDiv(m.timer, val)]
      [] addr = 65285 -> [m EXCEPT !.timer = TimerWriteTima(m.timer, val)]
      [] addr = 65286 -> [m EXCEPT !.timer = TimerWriteTma(m.timer, val)]
      [] addr = 65287 -> [m EXCEPT !.timer = TimerWriteTac(m.timer, val)]
      [] addr = 65295 -> WriteIrq(m, val)
      [] addr = 65344 -> [m EXCEPT !.ppu.lcd_control = val]
      [] addr = 65345 -> [m EXCEPT !.ppu.lcd_status = val]
      [] addr = 65346 -> [m EXCEPT !.ppu.scroll_y = val]
      [] addr = 65347 -> [m EXCEPT !.ppu.scroll_x = val]
      [] addr = 65349 -> [m EXCEPT !.ppu.lines_compare = val]
      [] addr = 65351 -> [m EXCEPT !.ppu.bg_palette = PaletteFrom(val)]
      [] addr = 65352 -> [m EXCEPT !.ppu.object_palette_0 = PaletteFrom(val)]
      [] addr = 65353 -> [m EXCEPT !.ppu.object_palette_1 = PaletteFrom(val)]
      [] addr = 65354 -> [m EXCEPT !.ppu.window_y = val]
      [] addr = 65355 -> [m EXCEPT !.ppu.window_x = val]
      [] InRange(addr, 65408, 65534) ->
             [m EXCEPT !.bus.hram = MemWr(m.bus.hram, addr - 65408, val)]
      [] addr = 65535 -> [m EXCEPT !.bus.ie = val]
      [] OTHER -> m

BusWrite(m, addr, val) ==
    [BusStore(m, addr, val) EXCEPT !.writes = m.writes \cup {addr}]

\* Bus::write_word: low byte at addr, high byte at addr + 1
BusWriteWord(m, addr, val) ==
    BusWrite(BusWrite(m, addr, val % 256), U16(addr + 1), val \div 256)

\* a Bus::tick that runs the timer as often as the PPU
BusTickEven(m) ==
    [m EXCEPT !.ppu = PpuTick(PpuTick(m.ppu)),
              !.timer = TimerTick(TimerTick(m.timer))]

\* Bus::tick: two PPU dots and four timer counts
BusTick(m) ==
    [m EXCEPT !.ppu = PpuTick(PpuTick(m.ppu)),
              !.timer = TimerTick(TimerTick(TimerTick(TimerTick(m.timer))))]

\* Ie bit accessors and the Bus::irq_* accessors, by interrupt source 0..4
\* (v_blank, lcd_stat, timer, serial, joypad)
IeBit(m, src) == Bit(m.bus.ie, src) = 1

Irq(m, src) ==
    CASE src = 0 -> m.ppu.int_v_blank
      [] src = 1 -> m.ppu.int_lcd_stat
      [] src = 2 -> m.timer.int
      [] src = 3 -> m.bus.int_serial
      [] src = 4 -> m.joypad.int

SetIrq(m, src, val) ==
    CASE src = 0 -> [m EXCEPT !.ppu.int_v_blank = val]
      [] src = 1 -> [m EXCEPT !.ppu.int_lcd_stat = val]
      [] src = 2 -> [m EXCEPT !.timer.int = val]
      [] src = 3 -> [m EXCEPT !.bus.int_serial = val]
      [] src = 4 -> [m EXCEPT !.joypad.int = val]

(***************************************************************************)
(* CPU (cpu.rs)                                                            *)
(***************************************************************************)
CpuNew ==
    [a |-> 0, f |-> 0, bc |-> 0, de |-> 0, hl |-> 0, sp |-> 0, pc |-> 0,
     stalls |-> 0, ime |-> FALSE, halt |-> FALSE]

\* bit positions of the flags in F
FlagC == 4

FlagH == 5

FlagN == 6

FlagZ == 7

Flag(m, b) == Bit(m.cpu.f, b) = 1

\* F with bit b set to val
WithFlag(f, b, val) == f - Bit(f, b) * Pow2(b) + BoolBit(val) * Pow2(b)

SetFlag(m, b, val) == [m EXCEPT !.cpu.f = WithFlag(m.cpu.f, b, val)]

Hi(w) == w \div 256

Lo(w) == w % 256

\* Cpu::r8
R8(m, index) ==
    CASE index = 0 -> Hi(m.cpu.bc)
      [] index = 1 -> Lo(m.cpu.bc)
      [] index = 2 -> Hi(m.cpu.de)
      [] index = 3 -> Lo(m.cpu.de)
      [] index = 4 -> Hi(m.cpu.hl)
      [] index = 5 -> Lo(m.cpu.hl)
      [] index = 6 -> BusRead(m, m.cpu.hl)
      [] index = 7 -> m.cpu.a

\* Cpu::set_r8
SetR8(m, index, val) ==
    CASE index = 0 -> [m EXCEPT !.cpu.bc = val * 256 + Lo(m.cpu.bc)]
      [] index = 1 -> [m EXCEPT !.cpu.bc = Hi(m.cpu.bc) * 256 + val]
      [] index = 2 -> [m EXCEPT !.cpu.de = val * 256 + Lo(m.cpu.de)]
      [] index = 3 -> [m EXCEPT !.cpu.de = Hi(m.cpu.de) * 256 + val]
      [] index = 4 -> [m EXCEPT !.cpu.hl = val * 256 + Lo(m.cpu.hl)]
      [] index = 5 -> [m EXCEPT !.cpu.hl = Hi(m.cpu.hl) * 256 + val]
      [] index = 6 -> BusWrite(m, m.cpu.hl, val)
      [] index = 7 -> [m EXCEPT !.cpu.a = val]

HalfCarryPositive(left, right) == (left % 16) + (right % 16) > 15

\* index as i8 as u16
SignExtend(index) == IF index >= 128 THEN 65280 + index ELSE index

\* the vectors of the interrupt sources 0..4
IntVector(src) == 64 + 8 * src

\* Cpu::call
Call(m, addr) ==
    LET sp == U16(m.cpu.sp + 65534)
        m1 == BusWriteWord([m EXCEPT !.cpu.sp = sp], sp, m.cpu.pc)
    IN [m1 EXCEPT !.cpu.pc = addr]

\* the two sources tested in the opposite order
DispatchedSourcesLcdFirst == <<1, 0>>

\* the interrupt sources Cpu::interrupt tests, in the order it tests them
DispatchedSources == <<0, 1>>

\* Cpu::interrupt: the machine afterwards and the source taken (-1: None)
RECURSIVE InterruptFrom(_, _)
InterruptFrom(m, k) ==
    IF k > Len(DispatchedSources)
    THEN [m |-> m, src |-> -1]
    ELSE LET src == DispatchedSources[k]
         IN IF IeBit(m, src) /\ Irq(m, src)
            THEN [m |-> Call(SetIrq(m, src, FALSE), IntVector(src)), src |-> src]
            ELSE InterruptFrom(m, k + 1)

Interrupt(m) == InterruptFrom(m, 1)

\* an interrupt phase that does not test the master enable
TickInterruptAnyIme(m) ==
    LET r == Interrupt(m)
    IN IF r.src # -1
       THEN [m |-> [r.m EXCEPT !.cpu.ime = FALSE, !.cpu.halt = FALSE], src |-> r.src]
       ELSE r

\* an interrupt phase that leaves the halted flag alone
TickInterruptKeepsHalt(m) ==
    IF m.cpu.ime
    THEN LET r == Interrupt(m)
         IN IF r.src # -1
            THEN [m |-> [r.m EXCEPT !.cpu.ime = FALSE], src |-> r.src]
            ELSE r
    ELSE [m |-> m, src |-> -1]

\* the interrupt phase of Cpu::tick
TickInterrupt(m) ==
    IF m.cpu.ime
    THEN LET r == Interrupt(m)
         IN IF r.src # -1
            THEN [m |-> [r.m EXCEPT !.cpu.ime = FALSE, !.cpu.halt = FALSE],
                  src |-> r.src]
            ELSE r
    ELSE [m |-> m, src |-> -1]

\* the bit patterns of do_mnemonic, most significant bit first, 2 for a
\* field letter
DecodePatterns ==
    {
     <<0,0,0,0,0,0,0,0>>, <<0,1,1,1,0,1,1,0>>, <<0,0,0,1,0,0,0,0>>, <<1,1,1,1,0,0,1,1>>,
     <<1,1,1,1,1,0,1,1>>, <<0,1,2,2,2,2,2,2>>, <<0,0,2,2,2,1,1,0>>, <<0,0,0,0,1,0,1,0>>,
     <<0,0,0,1,1,0,1,0>>, <<0,0,0,0,0,0,1,0>>, <<0,0,0,1,0,0,1,0>>, <<1,1,1,1,1,0,1,0>>,
     <<1,1,1,0,1,0,1,0>>, <<1,1,1,1,0,0,1,0>>, <<1,1,1,0,0,0,1,0>>, <<1,1,1,1,0,0,0,0>>,
     <<1,1,1,0,0,0,0,0>>, <<0,0,1,1,1,0,1,0>>, <<0,0,1,1,0,0,1,0>>, <<0,0,1,0,1,0,1,0>>,
     <<0,0,1,0,0,0,1,0>>, <<0,0,2,2,0,0,0,1>>, <<0,0,0,0,1,0,0,0>>, <<1,1,1,1,1,0,0,0>>,
     <<1,1,1,1,1,0,0,1>>, <<1,1,2,2,0,1,0,1>>, <<1,1,2,2,0,0,0,1>>, <<1,0,0,0,0,2,2,2>>,
     <<1,1,0,0,0,1,1,0>>, <<1,0,0,0,1,2,2,2>>, <<1,1,0,0,1,1,1,0>>, <<1,0,0,1,0,2,2,2>>,
     <<1,1,0,1,0,1,1,0>>, <<1,0,0,1,1,2,2,2>>, <<1,1,0,1,1,1,1,0>>, <<1,0,1,0,0,2,2,2>>,
     <<1,1,1,0,0,1,1,0>>, <<1,0,1,1,0,2,2,2>>, <<1,1,1,1,0,1,1,0>>, <<1,0,1,0,1,2,2,2>>,
     <<1,1,1,0,1,1,1,0>>, <<1,0,1,1,1,2,2,2>>, <<1,1,1,1,1,1,1,0>>, <<0,0,2,2,2,1,0,0>>,
     <<0,0,2,2,2,1,0,1>>, <<0,0,2,2,1,0,0,1>>, <<1,1,1,0,1,0,0,0>>, <<0,0,2,2,0,0,1,1>>,
     <<0,0,2,2,1,0,1,1>>, <<0,0,0,0,0,1,1,1>>, <<0,0,0,1,0,1,1,1>>, <<0,0,0,0,1,1,1,1>>,
     <<0,0,0,1,1,1,1,1>>, <<0,0,1,0,0,1,1,1>>, <<0,0,1,0,1,1,1,1>>, <<0,0,1,1,1,1,1,1>>,
     <<0,0,1,1,0,1,1,1>>, <<1,1,0,0,0,0,1,1>>, <<1,1,0,0,0,0,1,0>>, <<1,1,0,0,1,0,1,0>>,
     <<1,1,0,1,0,0,1,0>>, <<1,1,0,1,1,0,1,0>>, <<1,1,1,0,1,0,0,1>>, <<0,0,0,1,1,0,0,0>>,
     <<0,0,1,0,0,0,0,0>>, <<0,0,1,0,1,0,0,0>>, <<0,0,1,1,0,0,0,0>>, <<0,0,1,1,1,0,0,0>>,
     <<1,1,0,0,1,1,0,1>>, <<1,1,0,0,0,1,0,0>>, <<1,1,0,0,1,1,0,0>>, <<1,1,0,1,0,1,0,0>>,
     <<1,1,0,1,1,1,0,0>>, <<1,1,2,2,2,1,1,1>>, <<1,1,0,0,1,0,0,1>>, <<1,1,0,0,0,0,0,0>>,
     <<1,1,0,0,1,0,0,0>>, <<1,1,0,1,0,0,0,0>>, <<1,1,0,1,1,0,0,0>>, <<1,1,0,1,1,0,0,1>>,
     <<1,1,0,0,1,0,1,1>>
    }

Matches(pat, opecode) == \A i \in 1..8 : pat[i] = 2 \/ pat[i] = Bit(opecode, 8 - i)

KnownOpcode(opecode) == \E pat \in DecodePatterns : Matches(pat, opecode)

\* the instruction handlers
Halt(m) == [m EXCEPT !.cpu.halt = TRUE]

Di(m) == [m EXCEPT !.cpu.ime = FALSE]

Ei(m) == [m EXCEPT !.cpu.ime = TRUE]

PcAdd(m, n) == [m EXCEPT !.cpu.pc = U16(m.cpu.pc + n)]

Load8RIm8(m, index) == SetR8(PcAdd(m, 1), index, BusRead(m, m.cpu.pc))

Load8RR(m, left, right) == SetR8(m, left, R8(m, right))

Load8AAddrIndexIm8(m) ==
    LET index == BusRead(m, m.cpu.pc)
    IN [PcAdd(m, 1) EXCEPT !.cpu.a = BusRead(m, 65280 + index)]

Load8AddrIndexIm8A(m) ==
    LET index == BusRead(m, m.cpu.pc)
    IN BusWrite(PcAdd(m, 1), 65280 + index, m.cpu.a)

\* an INC that reports the wrap in C
Inc8RCarry(m, index) ==
    LET left   == R8(m, index)
        result == U8(left + 1)
        m1     == SetR8(m, index, result)
    IN SetFlag(SetFlag(SetFlag(SetFlag(m1, FlagZ, result = 0), FlagN, FALSE),
                       FlagH, HalfCarryPositive(left, 1)), FlagC, left = 255)

Inc8R(m, index) ==
    LET left   == R8(m, index)
        result == U8(left + 1)
        m1     == SetR8(m, index, result)
    IN SetFlag(SetFlag(SetFlag(m1, FlagZ, result = 0), FlagN, FALSE),
               FlagH, HalfCarryPositive(left, 1))

Jp16(m) == [m EXCEPT !.cpu.pc = BusReadWord(m, m.cpu.pc)]

Jr8Im8(m) ==
    LET index == BusRead(m, m.cpu.pc)
    IN PcAdd(PcAdd(m, 1), SignExtend(index))

Call16(m) == Call(PcAdd(m, 2), BusReadWord(m, m.cpu.pc))

Ret(m) ==
    [m EXCEPT !.cpu.pc = BusReadWord(m, m.cpu.sp), !.cpu.sp = U16(m.cpu.sp + 2)]

\* a RETI that leaves the master enable as it is
RetiKeepsIme(m) == Ret(m)

Reti(m) == [Ret(m) EXCEPT !.cpu.ime = TRUE]

\* Cpu::af
Af(m) == m.cpu.a * 256 + m.cpu.f

\* Cpu::set_af
SetAf(m, val) == [m EXCEPT !.cpu.a = val \div 256, !.cpu.f = val % 256]

\* Cpu::r16; the handlers modelled pass high = true, where index 3 is AF
R16(m, index, high) ==
    CASE index = 0 -> m.cpu.bc
      [] index = 1 -> m.cpu.de
      [] index = 2 -> m.cpu.hl
      [] index = 3 /\ high -> Af(m)
      [] index = 3 /\ ~high -> m.cpu.sp

\* Cpu::set_r16
SetR16(m, index, val, high) ==
    CASE index = 0 -> [m EXCEPT !.cpu.bc = val]
      [] index = 1 -> [m EXCEPT !.cpu.de = val]
      [] index = 2 -> [m EXCEPT !.cpu.hl = val]
      [] index = 3 /\ high -> SetAf(m, val)
      [] index = 3 /\ ~high -> [m EXCEPT !.cpu.sp = val]

CarryPositive(left, right) == left + right > 255

CarryNegative(left, right) == left < right

HalfCarryNegative(left, right) == (left % 16) < (right % 16)

CarryPositive16(left, right) == left + right > 65535

HalfCarryPositive16(left, right) == (left % 4096) + (right % 4096) > 4095

\* the four set_z, set_n, set_h, set_c calls that end an arithmetic handler
SetZnhc(m, z, n, h, c) ==
    SetFlag(SetFlag(SetFlag(SetFlag(m, FlagZ, z), FlagN, n), FlagH, h), FlagC, c)

\* a PUSH that stores the word before lowering SP
Push16RrAtOldSp(m, index) ==
    LET sp == U16(m.cpu.sp + 65534)
    IN BusWriteWord([m EXCEPT !.cpu.sp = sp], m.cpu.sp, R16(m, index, TRUE))

Push16Rr(m, index) ==
    LET sp == U16(m.cpu.sp + 65534)
    IN BusWriteWord([m EXCEPT !.cpu.sp = sp], sp, R16(m, index, TRUE))

Pop16Rr(m, index) ==
    SetR16([m EXCEPT !.cpu.sp = U16(m.cpu.sp + 2)], index,
           BusReadWord(m, m.cpu.sp), TRUE)

\* an ADD that hands the carry to H and the half carry to C
Add8ARSwapped(m, index) ==
    LET left   == m.cpu.a
        right  == R8(m, index)
        result == U8(left + right)
    IN SetZnhc([m EXCEPT !.cpu.a = result], result = 0, FALSE,
               CarryPositive(left, right), HalfCarryPositive(left, right))

Add8AR(m, index) ==
    LET left   == m.cpu.a
        right  == R8(m, index)
        result == U8(left + right)
    IN SetZnhc([m EXCEPT !.cpu.a = result], result = 0, FALSE,
               HalfCarryPositive(left, right), CarryPositive(left, right))

Sub8AR(m, index) ==
    LET left   == m.cpu.a
        right  == R8(m, index)
        result == U8(left + 256 - right)
    IN SetZnhc([m EXCEPT !.cpu.a = result], result = 0, TRUE,
               HalfCarryNegative(left, right), CarryNegative(left, right))

\* the result compared with 0 is left.wrapping_sub(left)
Cp8AR(m, index) ==
    LET left   == m.cpu.a
        right  == R8(m, index)
        result == U8(left + 256 - left)
    IN SetZnhc(m, result = 0, TRUE,
               HalfCarryNegative(left, right), CarryNegative(left, right))

Cp8AIm8(m) ==
    LET left   == m.cpu.a
        right  == BusRead(m, m.cpu.pc)
        result == U8(left + 256 - right)
    IN SetZnhc(PcAdd(m, 1), result = 0, TRUE,
               HalfCarryNegative(left, right), CarryNegative(left, right))

\* LD HL, SP+n: set_h takes the carry and set_c the half carry
Load16HlIndexIm8Sp(m) ==
    LET base_addr  == m.cpu.sp
        index_addr == SignExtend(BusRead(m, m.cpu.pc))
    IN SetZnhc([PcAdd(m, 1) EXCEPT !.cpu.hl = U16(base_addr + index_addr)],
               FALSE, FALSE,
               CarryPositive16(base_addr, index_addr),
               HalfCarryPositive16(base_addr, index_addr))

\* LD (nn), SP
Load16AddrIm16Sp(m) ==
    LET addr == BusReadWord(m, m.cpu.pc)
        val  == BusReadWord(m, addr)
    IN [PcAdd(m, 2) EXCEPT !.cpu.sp = val]

\* DAA: each adjustment is computed from the value A had, the later one
\* replacing the earlier; the result is 0 when none applies
DecimalAdjust8A(m) ==
    LET val  == m.cpu.a
        n    == Flag(m, FlagN)
        c    == Flag(m, FlagC)
        h    == Flag(m, FlagH)
        high == IF n THEN c ELSE c \/ val > 153
        low  == IF n THEN h ELSE h \/ val % 16 > 9
        r1   == IF high THEN U8(val + (IF n THEN 160 ELSE 96)) ELSE 0
        result == IF low THEN U8(val + (IF n THEN 250 ELSE 6)) ELSE r1
        m1   == IF ~n /\ high THEN SetFlag(m, FlagC, TRUE) ELSE m
    IN SetFlag(SetFlag([m1 EXCEPT !.cpu.a = result], FlagZ, result = 0), FlagH, FALSE)

Add16SpIm8(m) ==
    LET left  == m.cpu.sp
        right == SignExtend(BusRead(m, m.cpu.pc))
    IN SetZnhc([PcAdd(m, 1) EXCEPT !.cpu.sp = U16(left + right)],
               FALSE, FALSE,
               HalfCarryPositive16(left, right), CarryPositive16(left, right))

\* RLCA: the result is val << 1
Rlca8(m) ==
    LET val == m.cpu.a
    IN SetZnhc([m EXCEPT !.cpu.a = U8(val * 2)], FALSE, FALSE, FALSE, Bit(val, 7) = 1)

\* RRCA: the result is val >> 1
Rrca8(m) ==
    LET val == m.cpu.a
    IN SetZnhc([m EXCEPT !.cpu.a = val \div 2], FALSE, FALSE, FALSE, Bit(val, 0) = 1)

\* u8::rotate_left(1)
RotateLeft(val) == U8(val * 2) + Bit(val, 7)

\* u8::rotate_right(1)
RotateRight(val) == (val \div 2) + 128 * Bit(val, 0)

Rlc8R(m, index) ==
    LET val    == R8(m, index)
        result == RotateLeft(val)
    IN SetZnhc(SetR8(m, index, result), result = 0, FALSE, FALSE, Bit(val, 7) = 1)

Rrc8R(m, index) ==
    LET val    == R8(m, index)
        result == RotateRight(val)
    IN SetZnhc(SetR8(m, index, result), result = 0, FALSE, FALSE, Bit(val, 0) = 1)

\* the conditions NZ, Z, NC, C of the conditional transfers, by the bits
\* 4..3 of their opcodes
Cond(m, cc) ==
    CASE cc = 0 -> ~Flag(m, FlagZ)
      [] cc = 1 -> Flag(m, FlagZ)
      [] cc = 2 -> ~Flag(m, FlagC)
      [] cc = 3 -> Flag(m, FlagC)

\* a conditional JP that reads its operand only when it jumps
Jp16CcNoSkip(m, cc) ==
    IF Cond(m, cc) THEN [m EXCEPT !.cpu.pc = BusReadWord(m, m.cpu.pc)] ELSE m

\* jp_16_nz, jp_16_z, jp_16_nc, jp_16_c
Jp16Cc(m, cc) ==
    IF Cond(m, cc) THEN [m EXCEPT !.cpu.pc = BusReadWord(m, m.cpu.pc)] ELSE PcAdd(m, 2)

\* jr_8_nz, jr_8_z, jr_8_nc, jr_8_c
Jr8Cc(m, cc) ==
    IF Cond(m, cc)
    THEN PcAdd(PcAdd(m, 1), SignExtend(BusRead(m, m.cpu.pc)))
    ELSE PcAdd(m, 1)

\* call_16_nz, call_16_z, call_16_nc, call_16_c
Call16Cc(m, cc) ==
    IF Cond(m, cc) THEN Call(PcAdd(m, 2), BusReadWord(m, m.cpu.pc)) ELSE PcAdd(m, 2)

\* ret_nz, ret_z, ret_nc, ret_c
RetCc(m, cc) == IF Cond(m, cc) THEN Ret(m) ELSE m

\* Cpu::restart: the word is written at SP before SP is lowered, and the
\* target is the 3-bit field itself
Restart(m, param) ==
    LET m1 == BusWriteWord(m, m.cpu.sp, m.cpu.pc)
    IN [m1 EXCEPT !.cpu.sp = U16(m.cpu.sp + 65534), !.cpu.pc = param]

\* Cpu::do_mnemonic_prefixed
DoMnemonicPrefixed(m, opecode) ==
    CASE Field(opecode, 7, 3) = 0 -> [m |-> Rlc8R(m, Field(opecode, 2, 0)), res |-> "Ok"]
      [] Field(opecode, 7, 3) = 1 -> [m |-> Rrc8R(m, Field(opecode, 2, 0)), res |-> "Ok"]
      [] OTHER -> [m |-> m, res |-> "Unmodelled"]

\* the opcodes whose handlers are part of this model
ModelledOpcode(opecode) ==
    \/ opecode \in {0, 118, 16, 243, 251, 224, 240, 195, 24, 205, 201, 217}
    \/ Field(opecode, 7, 6) = 1
    \/ Field(opecode, 7, 6) = 0 /\ Field(opecode, 2, 0) \in {4, 6}
    \/ opecode \in {248, 232, 254, 7, 15, 203, 8, 39}
    \/ Field(opecode, 7, 6) = 3 /\ Field(opecode, 3, 0) \in {5, 1}
    \/ Field(opecode, 7, 3) \in {16, 18, 23}
    \/ Field(opecode, 7, 5) = 6 /\ Field(opecode, 2, 0) \in {0, 2, 4}
    \/ Field(opecode, 7, 5) = 1 /\ Field(opecode, 2, 0) = 0
    \/ Field(opecode, 7, 6) = 3 /\ Field(opecode, 2, 0) = 7

\* the result do_mnemonic returns for an opcode no pattern matches
UnimplementedResult == "Ok"

\* Cpu::do_mnemonic: the machine after the handler and the Result's variant
DoMnemonic(m, opecode) ==
    CASE opecode = 0 -> [m |-> m, res |-> "Ok"]
      [] opecode = 118 -> [m |-> Halt(m), res |-> "Ok"]
      [] opecode = 16 -> [m |-> m, res |-> "Ok"]
      [] opecode = 243 -> [m |-> Di(m), res |-> "Ok"]
      [] opecode = 251 -> [m |-> Ei(m), res |-> "Ok"]
      [] Field(opecode, 7, 6) = 1 /\ opecode # 118 ->
             [m |-> Load8RR(m, Field(opecode, 5, 3), Field(opecode, 2, 0)), res |-> "Ok"]
      [] Field(opecode, 7, 6) = 0 /\ Field(opecode, 2, 0) = 6 ->
             [m |-> Load8RIm8(m, Field(opecode, 5, 3)), res |-> "Ok"]
      [] opecode = 240 -> [m |-> Load8AAddrIndexIm8(m), res |-> "Ok"]
      [] opecode = 224 -> [m |-> Load8AddrIndexIm8A(m), res |-> "Ok"]
      [] Field(opecode, 7, 6) = 0 /\ Field(opecode, 2, 0) = 4 ->
             [m |-> Inc8R(m, Field(opecode, 5, 3)), res |-> "Ok"]
      [] opecode = 195 -> [m |-> Jp16(m), res |-> "Ok"]
      [] opecode = 24 -> [m |-> Jr8Im8(m), res |-> "Ok"]
      [] opecode = 205 -> [m |-> Call16(m), res |-> "Ok"]
      [] opecode = 201 -> [m |-> Ret(m), res |-> "Ok"]
      [] opecode = 217 -> [m |-> Reti(m), res |-> "Ok"]
      [] opecode = 8 -> [m |-> Load16AddrIm16Sp(m), res |-> "Ok"]
      [] opecode = 248 -> [m |-> Load16HlIndexIm8Sp(m), res |-> "Ok"]
      [] Field(opecode, 7, 6) = 3 /\ Field(opecode, 3, 0) = 5 ->
             [m |-> Push16Rr(m, Field(opecode, 5, 4)), res |-> "Ok"]
      [] Field(opecode, 7, 6) = 3 /\ Field(opecode, 3, 0) = 1 ->
             [m |-> Pop16Rr(m, Field(opecode, 5, 4)), res |-> "Ok"]
      [] Field(opecode, 7, 3) = 16 -> [m |-> Add8AR(m, Field(opecode, 2, 0)), res |-> "Ok"]
      [] Field(opecode, 7, 3) = 18 -> [m |-> Sub8AR(m, Field(opecode, 2, 0)), res |-> "Ok"]
      [] Field(opecode, 7, 3) = 23 -> [m |-> Cp8AR(m, Field(opecode, 2, 0)), res |-> "Ok"]
      [] opecode = 254 -> [m |-> Cp8AIm8(m), res |-> "Ok"]
      [] opecode = 232 -> [m |-> Add16SpIm8(m), res |-> "Ok"]
      [] opecode = 39 -> [m |-> DecimalAdjust8A(m), res |-> "Ok"]
      [] opecode = 7 -> [m |-> Rlca8(m), res |-> "Ok"]
      [] opecode = 15 -> [m |-> Rrca8(m), res |-> "Ok"]
      [] Field(opecode, 7, 5) = 6 /\ Field(opecode, 2, 0) = 2 ->
             [m |-> Jp16Cc(m, Field(opecode, 4, 3)), res |-> "Ok"]
      [] Field(opecode, 7, 5) = 1 /\ Field(opecode, 2, 0) = 0 ->
             [m |-> Jr8Cc(m, Field(opecode, 4, 3)), res |-> "Ok"]
      [] Field(opecode, 7, 5) = 6 /\ Field(opecode, 2, 0) = 4 ->
             [m |-> Call16Cc(m, Field(opecode, 4, 3)), res |-> "Ok"]
      [] Field(opecode, 7, 5) = 6 /\ Field(opecode, 2, 0) = 0 ->
             [m |-> RetCc(m, Field(opecode, 4, 3)), res |-> "Ok"]
      [] Field(opecode, 7, 6) = 3 /\ Field(opecode, 2, 0) = 7 ->
             [m |-> Restart(m, Field(opecode, 5, 3)), res |-> "Ok"]
      [] opecode = 203 ->
             DoMnemonicPrefixed(PcAdd(m, 1), BusRead(m, m.cpu.pc))
      [] OTHER -> [m |-> m, res |-> UnimplementedResult]

\* a fetch/execute phase that does not test the halted flag
TickExecuteAwake(m) ==
    IF m.cpu.stalls > 0
    THEN [m |-> [m EXCEPT !.cpu.stalls = m.cpu.stalls - 1], opecode |-> -1, res |-> "Ok"]
    ELSE Only({[m |-> r.m, opecode |-> opecode, res |-> r.res] :
                   <<opecode, r>> \in {<<oc, DoMnemonic(m1, oc)>> :
                       <<oc, m1>> \in {<<BusRead(m, m.cpu.pc), PcAdd(m, 1)>>}}})

\* the fetch/execute phase of Cpu::tick: opecode is -1 when nothing is fetched
TickExecute(m) ==
    IF m.cpu.stalls > 0
    THEN [m |-> [m EXCEPT !.cpu.stalls = m.cpu.stalls - 1], opecode |-> -1, res |-> "Ok"]
    ELSE IF m.cpu.halt
    THEN [m |-> m, opecode |-> -1, res |-> "Ok"]
    ELSE Only({[m |-> r.m, opecode |-> opecode, res |-> r.res] :
                   <<opecode, r>> \in {<<oc, DoMnemonic(m1, oc)>> :
                       <<oc, m1>> \in {<<BusRead(m, m.cpu.pc), PcAdd(m, 1)>>}}})

\* Cpu::tick: the machine afterwards, the interrupt source taken (-1: none),
\* the machine between the two phases, the opcode fetched and the Result
CpuTick(m) ==
    Only({[m |-> e.m, src |-> d.src, mid |-> d.m, opecode |-> e.opecode, res |-> e.res] :
              <<d, e>> \in {<<d0, TickExecute(d0.m)>> :
                  d0 \in {TickInterrupt([m EXCEPT !.writes = {}])}}})

\* Cpu::reset
ResetWrites ==
    <<<<65285, 0>>, <<65286, 0>>, <<65287, 0>>, <<65296, 128>>, <<65297, 191>>,
      <<65298, 243>>, <<65300, 243>>, <<65302, 63>>, <<65303, 0>>, <<65305, 191>>,
      <<65306, 127>>, <<65307, 255>>, <<65308, 159>>, <<65310, 191>>, <<65312, 255>>,
      <<65313, 0>>, <<65314, 0>>, <<65315, 191>>, <<65316, 119>>, <<65317, 243>>,
      <<65318, 241>>, <<65344, 145>>, <<65346, 0>>, <<65347, 0>>, <<65349, 0>>,
      <<65351, 252>>, <<65352, 255>>, <<65353, 255>>, <<65354, 0>>, <<65355, 0>>,
      <<65535, 0>>>>

RECURSIVE WriteAll(_, _, _)
WriteAll(m, ws, k) ==
    IF k > Len(ws) THEN m ELSE WriteAll(BusWrite(m, ws[k][1], ws[k][2]), ws, k + 1)

CpuReset(m) ==
    WriteAll([m EXCEPT !.cpu.a = 17, !.cpu.f = 128, !.cpu.bc = 0, !.cpu.de = 65366,
                       !.cpu.hl = 13, !.cpu.sp = 65534, !.cpu.pc = 256,
                       !.cpu.stalls = 0],
             ResetWrites, 1)

\* Gb::tick
GbTick(m) ==
    LET r == CpuTick(m)
    IN [r EXCEPT !.m = BusTick(r.m)]

(***************************************************************************)
(* ROM images the behaviours run.  A program is placed at the entry point  *)
(* 0x0100 and the interrupt vectors get a handler byte; every other byte   *)
(* of the 32 KiB image is 0.                                               *)
(***************************************************************************)
EntryPoint == 256

RomSize == 32768

At(base, bytes) == [a \in base..(base + Len(bytes) - 1) |-> bytes[a - base + 1]]

\* handler byte h at the five interrupt vectors
Vectors(h) == [a \in {IntVector(src) : src \in 0..4} |-> h]

RomImage(prog, h) ==
    [mbc_type |-> "RomOnly", size |-> RomSize, data |-> At(EntryPoint, prog) @@ Vectors(h)]

\* LD A,v; LDH (0xFF),A; LDH (0x0F),A; EI; NOP; HALT :
\* enables and raises the sources in v, then enables IME
ProgRaise(v) == <<62, v, 224, 255, 224, 15, 251, 0, 118>>

\* LD A,v; LDH (0x0F),A; EI; LD A,5; INC A; HALT : raises without enabling
ProgPendingOnly(v) == <<62, v, 224, 15, 251, 62, 5, 60, 118>>

\* LD A,5; INC A; CALL 0x0108; <0xD3>; HALT; ... 0x0108: RET
ProgCall == <<62, 5, 60, 205, 8, 1, 211, 118, 201>>

\* LD A,1; LDH (0xFF),A; LD A,4; LDH (0x0F),A; <0xDD>; EI; HALT :
\* a pending source that is not the enabled one
ProgMismatch == <<62, 1, 224, 255, 62, 4, 224, 15, 221, 251, 118>>

RaisedMasks == {1, 2, 4, 8, 16, 3}

\* RETI and NOP as the byte at the vectors
HandlerBytes == {217, 0}

Programs ==
    {RomImage(ProgRaise(v), h) : v \in RaisedMasks, h \in HandlerBytes}
      \cup {RomImage(ProgPendingOnly(1), 217), RomImage(ProgCall, 217),
            RomImage(ProgMismatch, 217)}

RomNop == [mbc_type |-> "RomOnly", size |-> RomSize, data |-> EmptyMem]

(***************************************************************************)
(* State, initial states and the event record                              *)
(***************************************************************************)
\* the machine of the current state
M == [cpu |-> cpu, bus |-> bus, ppu |-> ppu, timer |-> timer, joypad |-> joypad,
      mbc |-> mbc, rom |-> rom, writes |-> {}]

\* Gb::new
GbNew(r) ==
    [cpu |-> CpuNew, bus |-> BusNew, ppu |-> PpuNew, timer |-> TimerDefault,
     joypad |-> JoypadDefault, mbc |-> MbcNew(r), rom |-> r, writes |-> {}]

\* the interrupt sources both pending and enabled in m
Ready(m) == {src \in 0..4 : IeBit(m, src) /\ Irq(m, src)}

\* the part of a machine the interrupt phase can change
Snapshot(m) == [pc |-> m.cpu.pc, sp |-> m.cpu.sp, irq |-> ReadIrq(m), ime |-> m.cpu.ime,
                halt |-> m.cpu.halt, writes |-> m.writes]

\* ev records what the last operation did: for Cpu::tick the source taken,
\* the machine before the tick and between its two phases, the opcode
\* fetched and the Result; for Gb::tick also the number of Bus::tick calls;
\* for the Timer operations what sync's edge detection did; cpu0 is the Cpu
\* before the tick; addr and val are the arguments of a Bus::write, val
\* also the argument of a write_tima or write_tma, key
\* that of a Joypad::press or release; armed tells whether the timer was
\* enabled with its selected counter bit at 1 when write_div was called,
\* writes the addresses a Cpu::tick wrote through Bus::write
NoEv ==
    [src |-> -1, pre |-> Snapshot(GbNew(RomNop)), ready |-> {},
     mid |-> Snapshot(GbNew(RomNop)), opecode |-> -1, res |-> "Ok", bus_ticks |-> 0,
     edge |-> FALSE, wrapped |-> FALSE, reloaded |-> FALSE, cpu0 |-> CpuNew,
     addr |-> -1, val |-> 0, key |-> "", armed |-> FALSE, writes |-> {}]

CpuEv(m, r, n) ==
    [NoEv EXCEPT !.src = r.src, !.pre = Snapshot(m), !.ready = Ready(m),
                 !.mid = Snapshot(r.mid), !.opecode = r.opecode, !.res = r.res,
                 !.bus_ticks = n, !.cpu0 = m.cpu, !.writes = r.m.writes]

TimerEv(r) ==
    [NoEv EXCEPT !.edge = r.edge, !.wrapped = r.wrapped, !.reloaded = r.reloaded]

SetMachine(m) ==
    /\ cpu' = m.cpu
    /\ bus' = m.bus
    /\ ppu' = m.ppu
    /\ timer' = m.timer
    /\ joypad' = m.joypad
    /\ mbc' = m.mbc
    /\ rom' = m.rom

\* the number of false-to-true transitions of int_v_blank over n PPU ticks
RECURSIVE RisesOver(_, _)
RisesOver(p, n) ==
    IF n = 0 THEN 0
    ELSE BoolBit(~p.int_v_blank /\ PpuTick(p).int_v_blank) + RisesOver(PpuTick(p), n - 1)

InitMachine(m) ==
    /\ cpu = m.cpu
    /\ bus = m.bus
    /\ ppu = m.ppu
    /\ timer = m.timer
    /\ joypad = m.joypad
    /\ mbc = m.mbc
    /\ rom = m.rom
    /\ op = "Init"
    /\ ev = NoEv
    /\ nsteps = 0
    /\ nops = 0

\* Gb::new followed by Gb::reset, on one of the programs
Init ==
    /\ \E r \in Programs : InitMachine(CpuReset(GbNew(r)))
    /\ pticks = 0
    /\ rises = 0

\* the components as constructed
InitNew ==
    /\ InitMachine(GbNew(RomNop))
    /\ pticks = 0
    /\ rises = 0

(***************************************************************************)
(* Actions: one per public operation                                       *)
(***************************************************************************)
FrameTicks == DotsPerLine * LinesPerFrame

\* the opcode the next Cpu::tick fetches has a handler in this model, or no
\* decode pattern matches it
Fetchable(r) ==
    /\ r.opecode = -1 \/ ModelledOpcode(r.opecode) \/ ~KnownOpcode(r.opecode)
    /\ r.res # "Unmodelled"

\* Cpu::tick
CpuTickAct ==
    \E m \in {M} : \E r \in {CpuTick(m)} :
       /\ Fetchable(r)
       /\ SetMachine(r.m)
       /\ op' = "CpuTick"
       /\ ev' = CpuEv(m, r, 0)
       /\ UNCHANGED <<pticks, rises>>

\* Gb::tick: Cpu::tick, then Bus::tick once
GbTickAct ==
    \E m \in {M} : \E r \in {CpuTick(m)} : \E t \in {BusTick(r.m)} :
       /\ Fetchable(r)
       /\ SetMachine(t)
       /\ op' = "GbTick"
       /\ ev' = CpuEv(m, r, 1)
       /\ pticks' = pticks + 2
       /\ rises' = rises + RisesOver(r.m.ppu, 2)

\* Bus::tick
BusTickAct ==
    /\ SetMachine(BusTick(M))
    /\ op' = "BusTick"
    /\ ev' = NoEv
    /\ pticks' = pticks + 2
    /\ rises' = rises + RisesOver(ppu, 2)

\* Ppu::tick
PpuTickAct ==
    /\ pticks < MaxFrames * FrameTicks
    /\ ppu' = PpuTick(ppu)
    /\ op' = "PpuTick"
    /\ ev' = NoEv
    /\ pticks' = pticks + 1
    /\ rises' = rises + RisesOver(ppu, 1)
    /\ UNCHANGED <<cpu, bus, timer, joypad, mbc, rom>>

\* Bus::write to one of the PPU registers
PpuRegisterWrites == {<<65344, 145>>, <<65344, 0>>, <<65346, 3>>}

PpuWriteAct ==
    \E w \in PpuRegisterWrites :
        /\ SetMachine(BusWrite(M, w[1], w[2]))
        /\ op' = "PpuWrite"
        /\ ev' = NoEv
        /\ UNCHANGED <<pticks, rises>>

\* Bus::write to the interrupt flag register 0xFF0F
IrqWrites == {0, 1}

WriteIrqAct ==
    \E v \in IrqWrites :
        /\ SetMachine(BusWrite(M, 65295, v))
        /\ op' = "WriteIrq"
        /\ ev' = NoEv
        /\ UNCHANGED <<pticks, rises>>

\* Timer::tick, while the counter is below max
TimerTickAct(max) ==
    /\ timer.counter < max
    /\ timer' = TimerTick(timer)
    /\ op' = "TimerTick"
    /\ ev' = TimerEv(TimerSyncEv([timer EXCEPT !.counter = U16(timer.counter + 1)]))
    /\ UNCHANGED <<cpu, bus, ppu, joypad, mbc, rom, pticks, rises>>

TimerWriteDivAct ==
    /\ timer' = TimerWriteDiv(timer, 0)
    /\ op' = "WriteDiv"
    /\ ev' = [NoEv EXCEPT !.armed = TimerCur(timer)]
    /\ UNCHANGED <<cpu, bus, ppu, joypad, mbc, rom, pticks, rises>>

TimaWrites == {255}

TimerWriteTimaAct ==
    \E v \in TimaWrites :
        /\ timer' = TimerWriteTima(timer, v)
        /\ op' = "WriteTima"
        /\ ev' = [TimerEv(TimerSyncEv(timer)) EXCEPT !.val = v]
        /\ UNCHANGED <<cpu, bus, ppu, joypad, mbc, rom, pticks, rises>>

TmaWrites == {128}

TimerWriteTmaAct ==
    \E v \in TmaWrites :
        /\ timer' = TimerWriteTma(timer, v)
        /\ op' = "WriteTma"
        /\ ev' = [TimerEv(TimerSyncEv([timer EXCEPT !.tma = v])) EXCEPT !.val = v]
        /\ UNCHANGED <<cpu, bus, ppu, joypad, mbc, rom, pticks, rises>>

TimerWriteTacAct(vals) ==
    \E v \in vals :
        /\ timer' = TimerWriteTac(timer, v)
        /\ op' = "WriteTac"
        /\ ev' = NoEv
        /\ UNCHANGED <<cpu, bus, ppu, joypad, mbc, rom, pticks, rises>>

\* the keys the host presses and releases
PressedKeys == {"A"}

JoypadPressAct ==
    \E k \in PressedKeys :
        /\ joypad' = JoypadPress(joypad, k)
        /\ op' = "JoypadPress"
        /\ ev' = NoEv
        /\ UNCHANGED <<cpu, bus, ppu, timer, mbc, rom, pticks, rises>>

JoypadReleaseAct ==
    \E k \in PressedKeys :
        /\ joypad' = JoypadRelease(joypad, k)
        /\ op' = "JoypadRelease"
        /\ ev' = NoEv
        /\ UNCHANGED <<cpu, bus, ppu, timer, mbc, rom, pticks, rises>>

(***************************************************************************)
(* Specifications                                                          *)
(***************************************************************************)
Step(A) == nsteps < MaxSteps /\ A /\ nsteps' = nsteps + 1 /\ UNCHANGED nops

Periph(A) == nops < MaxPeripheralOps /\ A /\ nops' = nops + 1 /\ UNCHANGED nsteps


\* the emulator on a program: the CPU steps, with the peripherals' own
\* operations and the host's key events interleaved
Next ==
    \/ Step(CpuTickAct)
    \/ Step(GbTickAct)
    \/ Periph(BusTickAct)
    \/ Periph(PpuTickAct)
    \/ Periph(TimerTickAct(MaxCounter))
    \/ Periph(JoypadPressAct)
    \/ Periph(JoypadReleaseAct)

Spec == Init /\ [][Next]_vars

\* the PPU alone, ticked through whole frames, nobody clearing its flags
NextPpu ==
    \/ PpuTickAct /\ UNCHANGED <<nsteps, nops>>
    \/ PpuWriteAct /\ UNCHANGED <<nsteps, nops>>

SpecPpu == InitNew /\ [][NextPpu]_vars

\* the Timer alone under any sequence of its operations
TacWrites == {0, 4, 5, 6}

NextTimer ==
    \/ TimerTickAct(MaxCounter) /\ UNCHANGED <<nsteps, nops>>
    \/ TimerWriteDivAct /\ UNCHANGED <<nsteps, nops>>
    \/ TimerWriteTimaAct /\ UNCHANGED <<nsteps, nops>>
    \/ TimerWriteTmaAct /\ UNCHANGED <<nsteps, nops>>
    \/ TimerWriteTacAct(TacWrites) /\ UNCHANGED <<nsteps, nops>>

SpecTimer == InitNew /\ [][NextTimer]_vars

\* the Timer on clock-select 00 (counter bit 9), through more than one
\* 1024-tick period, with a bounded number of register writes
RunTacWrites == {4}

RunWrite(A) == nsteps < MaxRunWrites /\ A /\ nsteps' = nsteps + 1 /\ UNCHANGED nops

NextTimerRun ==
    \/ TimerTickAct(MaxCounterRun) /\ UNCHANGED <<nsteps, nops>>
    \/ RunWrite(TimerWriteDivAct)
    \/ RunWrite(TimerWriteTimaAct)
    \/ RunWrite(TimerWriteTmaAct)
    \/ RunWrite(TimerWriteTacAct(RunTacWrites))

SpecTimerRun == InitNew /\ [][NextTimerRun]_vars

\* the PPU around the start of the vertical blank, with the CPU side
\* writing the interrupt flag register.  The PPU starts either as
\* constructed or at the end of line 143 of the first frame, a state the
\* constructed PPU reaches after PpuLateTicks ticks (SpecPpu reaches it).
PpuLateTicks == 143 * DotsPerLine + 440

PpuLate ==
    [PpuNew EXCEPT !.lines = 143, !.cycles = 440, !.mode = "HBlank", !.x = 159, !.y = 143]

InitPpuIrq ==
    /\ \/ InitMachine(GbNew(RomNop)) /\ pticks = 0
       \/ InitMachine([GbNew(RomNop) EXCEPT !.ppu = PpuLate]) /\ pticks = PpuLateTicks
    /\ rises = 0

IrqStep(A) == nsteps < MaxIrqSteps /\ A /\ nsteps' = nsteps + 1 /\ UNCHANGED nops

NextPpuIrq ==
    \/ IrqStep(PpuTickAct)
    \/ IrqStep(WriteIrqAct)

SpecPpuIrq == InitPpuIrq /\ [][NextPpuIrq]_vars

(***************************************************************************)
(* Interrupt dispatch, decoding and step timing (under Spec)               *)
(***************************************************************************)
CpuOps == {"CpuTick", "GbTick"}

\* addresses of work RAM and high RAM
InRam(addr) == InRange(addr, 49152, 57343) \/ InRange(addr, 65408, 65534)

\* the stack slot a push from sp fills lies in RAM
StackInRam(sp) == InRam(U16(sp + 65534)) /\ InRam(U16(sp + 65535))

\* C1: with the master enable set, the vertical-blank interrupt pending and
\* enabled and SP in writable RAM, when one Cpu::tick has returned the
\* vertical-blank flag is false, IME is false, SP is two lower, the word at
\* the new SP is the old PC, and PC is 0x0040.
C1_VBlankServiceStep ==
    (op = "CpuTick" /\ ev.pre.ime /\ 0 \in ev.ready /\ StackInRam(ev.pre.sp))
        => /\ ~Irq(M, 0)
           /\ ~cpu.ime
           /\ cpu.sp = U16(ev.pre.sp + 65534)
           /\ BusReadWord(M, cpu.sp) = ev.pre.pc
           /\ cpu.pc = IntVector(0)

\* C2: for each of the five sources, when IME is set and the source is
\* pending and enabled and no source of higher priority is, the interrupt
\* phase of the next Cpu::tick takes it: it clears exactly that pending
\* flag, clears IME, pushes PC and jumps to the source's vector.
C2_EverySourceTaken ==
    \A src \in 0..4 :
        (/\ op \in CpuOps
         /\ ev.pre.ime
         /\ src \in ev.ready
         /\ \A hi \in 0..(src - 1) : hi \notin ev.ready)
            => /\ ev.src = src
               /\ ev.mid.irq = ev.pre.irq - Pow2(src)
               /\ ~ev.mid.ime
               /\ ev.mid.sp = U16(ev.pre.sp + 65534)
               /\ ev.mid.pc = IntVector(src)

\* the interrupt phase of the last Cpu::tick left the machine as it was
PhaseIdle ==
    /\ ev.src = -1
    /\ ev.mid.writes = {}
    /\ ev.mid.sp = ev.pre.sp
    /\ ev.mid.pc = ev.pre.pc
    /\ ev.mid.irq = ev.pre.irq
    /\ ev.mid.ime = ev.pre.ime

PeripheralOps == {"PpuTick", "TimerTick", "BusTick", "JoypadPress", "JoypadRelease"}

\* C3: the interrupt phase takes a source only when IME is set and the
\* source's bit is set in both the pending and the enable register, and
\* otherwise pushes nothing, changes no flag and leaves PC alone; and no
\* pending flag is ever cleared by Ppu::tick, Timer::tick, Bus::tick or a
\* Joypad operation.
C3_DispatchOnlyWhenEnabled ==
    [][/\ op' \in CpuOps =>
             /\ ev'.src # -1 => (ev'.pre.ime /\ ev'.src \in ev'.ready)
             /\ (~ev'.pre.ime \/ ev'.ready = {}) => PhaseIdle'
       /\ op' \in PeripheralOps =>
             \A src \in 0..4 : Irq(M, src) => Irq(M, src)']_vars

\* a tick with a source pending and enabled while IME is clear took nothing
C3_Witness == op = "CpuTick" /\ ~ev.pre.ime /\ ev.ready # {} /\ PhaseIdle

\* C4: a fetched opcode that no decode pattern matches makes the tick
\* return a fatal error.
C4_UnknownOpcodeIsError ==
    (op \in CpuOps /\ ev.opecode # -1 /\ ~KnownOpcode(ev.opecode)) => ev.res = "Err"

\* the machine cycles of the instructions the timing claim names
ClaimedCycles == [opecode \in {0, 62, 205} |->
                     CASE opecode = 0 -> 1 [] opecode = 62 -> 2 [] opecode = 205 -> 6]

\* C5: a Gb step advances the bus by as many Bus::tick calls as the
\* instruction executed takes machine cycles: 1 for NOP, 2 for LD A,n and
\* 6 for CALL nn.
C5_BusTicksPerStep ==
    (op = "GbTick" /\ ev.src = -1 /\ ev.opecode \in DOMAIN ClaimedCycles)
        => ev.bus_ticks = ClaimedCycles[ev.opecode]

(***************************************************************************)
(* The PPU's frame (under SpecPpu and SpecPpuIrq)                          *)
(***************************************************************************)
\* C6: from a fresh PPU, with nobody clearing the flag, after 70224 ticks
\* the position is (0,0) again and the vertical-blank flag has gone from
\* false to true exactly once, on tick 144 * 456.
C6_OneVBlankPerFrame ==
    /\ pticks = FrameTicks => (ppu.lines = 0 /\ ppu.cycles = 0 /\ rises = 1)
    /\ pticks <= FrameTicks =>
           rises = (IF pticks >= VBlankLine * DotsPerLine THEN 1 ELSE 0)
    /\ (pticks <= FrameTicks /\ rises = 0) => ~ppu.int_v_blank

\* a whole frame has been ticked
C6_Witness == pticks = FrameTicks /\ rises = 1 /\ ppu.int_v_blank

\* the mode the claim assigns to a position
ModeAt(lines, cycles) ==
    IF lines >= VBlankLine THEN "VBlank"
    ELSE IF cycles <= 79 THEN "OamScan"
    ELSE IF cycles <= 239 THEN "Drawing"
    ELSE "HBlank"

\* C7: with the CPU side clearing the flag between ticks, the PPU sets the
\* vertical-blank flag on exactly one tick per frame, the tick on which the
\* line becomes 144; a flag cleared later during line 144 stays clear.
C7_VBlankSetOncePerFrame ==
    [][(op' = "PpuTick" /\ ~ppu.int_v_blank /\ ppu'.int_v_blank)
           => (ppu.lines # VBlankLine /\ ppu'.lines = VBlankLine)]_vars

\* C8 as stated: in every reachable PPU state the line is in 0..153, the
\* dot in 0..455 and the mode is the function ModeAt of the position.
C8_ModeFollowsPosition ==
    /\ ppu.lines \in 0..(LinesPerFrame - 1)
    /\ ppu.cycles \in 0..(DotsPerLine - 1)
    /\ ppu.mode = ModeAt(ppu.lines, ppu.cycles)

\* C8 amended: in every reachable PPU state the line is in 0..153 and the
\* dot in 0..455, and in every state after at least one tick the mode is
\* the function ModeAt of the position; the PPU as constructed is at (0,0)
\* in mode VBlank.
C8_ModeFollowsPositionAfterTick ==
    /\ ppu.lines \in 0..(LinesPerFrame - 1)
    /\ ppu.cycles \in 0..(DotsPerLine - 1)
    /\ pticks >= 1 => ppu.mode = ModeAt(ppu.lines, ppu.cycles)
    /\ pticks = 0 => (ppu.lines = 0 /\ ppu.cycles = 0 /\ ppu.mode = "VBlank")

\* the PPU is back at (0,0) after a frame, now in OAM scan
C8_Witness ==
    pticks = FrameTicks /\ ppu.lines = 0 /\ ppu.cycles = 0 /\ ppu.mode = "OamScan"

(***************************************************************************)
(* The timer's edge detector (under SpecTimerRun and SpecTimer)            *)
(***************************************************************************)
\* C9: with the timer enabled on clock-select 00, over consecutive ticks
\* with no register write in between, TIMA is incremented on exactly the
\* ticks on which bit 9 of the counter goes from 1 to 0, once per 1024
\* ticks, and a wrap from 0xFF reloads TMA and sets the flag on that tick.
C9_IncrementOnBit9Fall ==
    [][(op' = "TimerTick" /\ timer.enable /\ timer.clock = 0)
           => /\ ev'.edge <=> (Bit(timer.counter, 9) = 1 /\ Bit(timer'.counter, 9) = 0)
              /\ ev'.wrapped => (timer'.tima = timer'.tma /\ timer'.int)]_vars

TimerOps == {"TimerTick", "WriteDiv", "WriteTima", "WriteTma", "WriteTac"}

\* C10: in any sequence of Timer operations, whenever the edge detection
\* wraps TIMA past 0xFF, the same operation reloads TIMA from TMA and sets
\* the timer interrupt flag.
C10_WrapReloads ==
    (op \in TimerOps /\ ev.wrapped)
        => /\ ev.reloaded
           /\ timer.int
           /\ op # "WriteTima" => timer.tima = timer.tma

\* the selected counter bit, last sampled as 1, is 0 after this step, with
\* the timer enabled
SelectedBitFalls ==
    /\ timer.prev
    /\ timer'.enable
    /\ Bit(timer'.counter, ClockBit(timer'.clock)) = 0

\* C11: over any sequence of Timer operations TIMA changes only through
\* write_tima or through an increment caused by a 1-to-0 transition of the
\* selected counter bit while the timer is enabled; no Timer::tick executed
\* while the enable flag is clear changes TIMA.
C11_TimaChangesOnlyOnEdge ==
    [][/\ (op' \in TimerOps /\ timer'.tima # timer.tima)
              => (op' = "WriteTima" \/ SelectedBitFalls)
       /\ (op' = "TimerTick" /\ ~timer.enable) => timer'.tima = timer.tima]_vars

(***************************************************************************)
(* Single instructions (SpecInstr).  The CPU starts after reset with its   *)
(* registers drawn from sample sets and a short program placed in work RAM *)
(* at 0xC000; the ROM holds RET at 0x0000..0x003F and RETI at the vectors  *)
(* 0x0040 and 0x0048.                                                      *)
(***************************************************************************)
InstrBase == 49152

\* the address CALL targets, where a RET is placed
InstrCallee == InstrBase + 16

InstrRom ==
    [mbc_type |-> "RomOnly", size |-> RomSize,
     data |-> [a \in 0..63 |-> 201] @@ (64 :> 217) @@ (72 :> 217)]

ByteSamples == {0, 1, 2, 7, 8, 15, 16, 17, 127, 128, 129, 143, 240, 241, 254, 255}

FlagSamples == {0, 16, 128, 144}

StackSamples == {53248, 65534}

SpSamples == {0, 15, 255, 3968, 4095, 53248, 61680, 65534, 65535}

\* a case: the program, the registers, bytes placed in memory, and IME
Case(prog, a, f, bc, de, hl, sp, mem, ime) ==
    [prog |-> prog, a |-> a, f |-> f, bc |-> bc, de |-> de, hl |-> hl, sp |-> sp,
     mem |-> mem, ime |-> ime]

\* PUSH rr; POP rr for the four pairs, and PUSH BC; POP AF
PushPopCases ==
    {Case(<<197 + 16 * rr, 193 + 16 * rr>>, hi, lo - (lo % 16), hi * 256 + lo,
          hi * 256 + lo, hi * 256 + lo, sp, <<>>, FALSE) :
        <<rr, hi, lo, sp>> \in (0..3) \X ByteSamples \X ByteSamples \X StackSamples}
    \cup {Case(<<197, 241>>, 0, 0, hi * 256 + lo, 0, 0, 65534, <<>>, FALSE) :
              <<hi, lo>> \in ByteSamples \X ByteSamples}

\* ADD A,r; SUB A,r and SUB A,r; ADD A,r with r = B and r = E, and CP A,r
\* and CP A,n, with A = a and the operand b
AluPrograms(b) ==
    {<<128, 144>>, <<144, 128>>, <<131, 147>>, <<147, 131>>, <<184>>, <<187>>, <<254, b>>}

AluCases ==
    {Case(prog, a, f, b * 256 + a, a * 256 + b, 0, 65534, <<>>, FALSE) :
        <<a, b, f, prog>> \in
            {<<a, b, f, prog>> \in ByteSamples \X ByteSamples \X {0, 240} \X
                                      UNION {AluPrograms(b) : b \in ByteSamples} :
                 Len(prog) = 1 \/ prog[1] # 254 \/ prog[2] = b}}

\* RLCA, RRCA, RLC A, RRC A for every A
RotateCases ==
    {Case(prog, a, f, 0, 0, 0, 65534, <<>>, FALSE) :
        <<prog, a, f>> \in {<<7>>, <<15>>, <<203, 7>>, <<203, 15>>} \X (0..255) \X {0, 240}}

\* ADD SP,n and LD HL,SP+n for every n
SpAddCases ==
    {Case(<<opc, n>>, 0, f, 0, 0, 0, sp, <<>>, FALSE) :
        <<opc, n, sp, f>> \in {232, 248} \X (0..255) \X SpSamples \X {0, 240}}

\* JP cc / CALL cc / CALL to the callee, JR cc, RET cc with the callee's
\* address on the stack, RST n, and an interrupt taken at a NOP
TransferCases ==
    {Case(<<opc, InstrCallee % 256, InstrCallee \div 256>>, 0, f, 0, 0, 0, sp,
          <<<<InstrCallee, 201>>>>, FALSE) :
        <<opc, f, sp>> \in {194, 202, 210, 218, 196, 204, 212, 220, 205} \X FlagSamples
                               \X StackSamples}
    \cup {Case(<<opc, e>>, 0, f, 0, 0, 0, 65534, <<>>, FALSE) :
              <<opc, e, f>> \in {32, 40, 48, 56} \X ByteSamples \X FlagSamples}
    \cup {Case(<<opc>>, 0, f, 0, 0, 0, sp,
               <<<<sp, InstrCallee % 256>>, <<sp + 1, InstrCallee \div 256>>>>, FALSE) :
              <<opc, f, sp>> \in {192, 200, 208, 216} \X FlagSamples \X {53248, 65532}}
    \cup {Case(<<199 + 8 * n>>, 0, 0, 0, 0, 0, sp, <<>>, FALSE) :
              <<n, sp>> \in (0..7) \X StackSamples}
    \cup {Case(<<0>>, 0, 0, 0, 0, 0, sp, <<<<65535, irq>>, <<65295, irq>>>>, TRUE) :
              <<irq, sp>> \in {1, 2, 3} \X StackSamples}

\* LD A,n; INC A for every n
LoadIncCases ==
    {Case(<<62, n, 60>>, 0, f, 0, 0, 0, 65534, <<>>, FALSE) :
        <<n, f>> \in (0..255) \X (FlagSamples \cup {240})}

\* LD (nn),SP with nn the callee's address, where a word is placed
StoreSpCases ==
    {Case(<<8, InstrCallee % 256, InstrCallee \div 256>>, 0, f, 0, 0, 0, sp,
          <<<<InstrCallee, w % 256>>, <<InstrCallee + 1, w \div 256>>>>, FALSE) :
        <<sp, w, f>> \in SpSamples \X {0, 4660, 65534} \X {0, 240}}

\* the packed-BCD bytes and the operands added to them
BcdBytes == {b \in 0..153 : b % 16 <= 9}

BcdOperands == {0, 1, 9, 16, 21, 39, 69, 80, 85, 136, 144, 153}

\* ADD A,B; DAA from A = x and B = y, and DAA alone with the flags clear
DaaCases ==
    {Case(<<128, 39>>, x, 0, y * 256, 0, 0, 65534, <<>>, FALSE) :
        <<x, y>> \in BcdBytes \X BcdOperands}
    \cup {Case(<<39>>, x, 0, 0, 0, 0, 65534, <<>>, FALSE) : x \in BcdBytes}

InstrCases ==
    PushPopCases \cup AluCases \cup RotateCases \cup SpAddCases \cup TransferCases
        \cup LoadIncCases \cup StoreSpCases \cup DaaCases

\* the machine of a case
InstrMachine(c) ==
    LET m0 == CpuReset(GbNew(InstrRom))
        m1 == [m0 EXCEPT !.cpu.a = c.a, !.cpu.f = c.f, !.cpu.bc = c.bc, !.cpu.de = c.de,
                         !.cpu.hl = c.hl, !.cpu.sp = c.sp, !.cpu.pc = InstrBase,
                         !.cpu.ime = c.ime]
        m2 == WriteAll(m1, [i \in 1..Len(c.prog) |-> <<InstrBase + i - 1, c.prog[i]>>], 1)
    IN [WriteAll(m2, c.mem, 1) EXCEPT !.writes = {}]

InitInstr ==
    /\ \E c \in InstrCases : \E m \in {InstrMachine(c)} : InitMachine(m)
    /\ pticks = 0
    /\ rises = 0

InstrStep(A) == nsteps < MaxInstrSteps /\ A /\ nsteps' = nsteps + 1 /\ UNCHANGED nops

NextInstr == InstrStep(CpuTickAct)

SpecInstr == InitInstr /\ [][NextInstr]_vars

(***************************************************************************)
(* The Bus alone (SpecBus): writes through Bus::write, Bus::tick and       *)
(* Ppu::tick, from PPU positions in three modes and a timer counter about  *)
(* to wrap.  The PPU states are those the constructed PPU reaches after    *)
(* pticks ticks (SpecPpu reaches them).                                    *)
(***************************************************************************)
PpuDrawing == [PpuNew EXCEPT !.cycles = 100, !.x = 20, !.mode = "Drawing"]

PpuFrameEnd ==
    [PpuNew EXCEPT !.lines = 153, !.cycles = 454, !.y = 143, !.mode = "VBlank",
                   !.int_v_blank = TRUE]

\* the PPU states a behaviour starts from, with the ticks and the rises of
\* the vertical-blank flag that led to each
BusPpuStarts ==
    {<<PpuNew, 0, 0>>, <<PpuDrawing, 100, 0>>, <<PpuFrameEnd, 153 * DotsPerLine + 454, 1>>}

BusCounterStarts == {0, 65534}

\* addresses written: the ends of video RAM, work RAM, its echo and high
\* RAM, the last echoed work RAM byte and the first one not echoed, and
\* cartridge RAM, the sprite table, TAC and IE
BusAddrs ==
    {32768, 40959, 49152, 56831, 56832, 57343, 57344, 65023, 65408, 65534,
     40960, 65024, 65287, 65535}

BusVals == {66, 255}

BusWriteAct ==
    \E a \in BusAddrs : \E v \in BusVals :
        /\ SetMachine(BusWrite(M, a, v))
        /\ op' = "BusWrite"
        /\ ev' = [NoEv EXCEPT !.addr = a, !.val = v]
        /\ UNCHANGED <<pticks, rises>>

InitBus ==
    \E s \in BusPpuStarts : \E c \in BusCounterStarts :
        /\ InitMachine([GbNew(RomNop) EXCEPT !.ppu = s[1], !.timer.counter = c])
        /\ pticks = s[2]
        /\ rises = s[3]

BusStep(A) == nsteps < MaxBusSteps /\ A /\ nsteps' = nsteps + 1 /\ UNCHANGED nops

NextBus ==
    \/ BusStep(BusWriteAct)
    \/ BusStep(BusTickAct)
    \/ BusStep(PpuTickAct)

SpecBus == InitBus /\ [][NextBus]_vars

(***************************************************************************)
(* An Mbc1 cartridge behind the Bus (SpecMbc).  Each byte of the ROM image *)
(* tells its bank and the parity of its offset; nops counts the writes to  *)
(* 0x4000..0x7FFF.                                                         *)
(***************************************************************************)
\* the bank numbers rom_bank can hold
RomBanks == 0..127

\* the offsets read in a bank
BankOffsets == {0, 1, 16383}

RomMbc1 ==
    [mbc_type |-> "Mbc1", size |-> 128 * RomBankSize,
     data |-> [i \in {b * RomBankSize + k : b \in RomBanks, k \in BankOffsets} |->
                  (i \div RomBankSize) * 2 + (i % 2)]]

\* the writes: RAM enable, ROM bank, upper bits, mode latch, cartridge RAM
MbcWrites ==
    {<<0, 10>>, <<8191, 26>>, <<0, 0>>, <<0, 160>>,
     <<8192, 0>>, <<8192, 2>>, <<16383, 31>>, <<8192, 224>>, <<8192, 33>>,
     <<16384, 0>>, <<16384, 1>>, <<24575, 2>>, <<16384, 255>>,
     <<24576, 1>>, <<32767, 0>>, <<24576, 3>>,
     <<40960, 66>>, <<49151, 255>>, <<40960, 0>>}

\* the cartridge RAM addresses read
RamAddrs == {40960, 49151}

MbcWriteAct ==
    \E w \in MbcWrites :
        /\ SetMachine(BusWrite(M, w[1], w[2]))
        /\ op' = "MbcWrite"
        /\ ev' = [NoEv EXCEPT !.addr = w[1], !.val = w[2]]
        /\ nsteps < MaxMbcSteps
        /\ nsteps' = nsteps + 1
        /\ nops' = nops + BoolBit(InRange(w[1], 16384, 32767))
        /\ UNCHANGED <<pticks, rises>>

InitMbc ==
    /\ InitMachine(GbNew(RomMbc1))
    /\ pticks = 0
    /\ rises = 0

NextMbc == MbcWriteAct

SpecMbc == InitMbc /\ [][NextMbc]_vars

(***************************************************************************)
(* Bank switching and cartridge RAM (under SpecMbc)                        *)
(***************************************************************************)
\* C24: on an Mbc1 on which no write to 0x4000-0x7FFF has occurred, after a
\* write of v to 0x2000-0x3FFF every read at 0x4000+k returns
\* rom.data[b*16384 + k] with b = max(v & 0x1F, 1), until the next such
\* write; reads at 0x0000-0x3FFF always return rom.data[addr]; for v = 2 a
\* read at 0x4000 returns rom.data[2*16384].
C24_RomBankSelect ==
    [][op' = "MbcWrite" =>
          /\ (nops' = 0 /\ InRange(ev'.addr, 8192, 16383)) =>
                 LET b == IF ev'.val % 32 >= 1 THEN ev'.val % 32 ELSE 1
                 IN /\ \A k \in BankOffsets :
                           BusRead(M', 16384 + k) = rom.data[b * 16384 + k]
                    /\ ev'.val = 2 => BusRead(M', 16384) = rom.data[2 * 16384]
          /\ (nops' = 0 /\ ~InRange(ev'.addr, 8192, 16383)) =>
                 \A k \in BankOffsets : BusRead(M', 16384 + k) = BusRead(M, 16384 + k)
          /\ \A k \in BankOffsets : BusRead(M', k) = rom.data[k]]_vars

\* bank 31 selected through 0x3FFF, no write to 0x4000-0x7FFF so far
C24_Witness ==
    /\ op = "MbcWrite"
    /\ nops = 0
    /\ ev.addr = 16383
    /\ ev.val = 31
    /\ BusRead(M, 32767) = rom.data[31 * 16384 + 16383]
    /\ BusRead(M, 32767) = 63

\* C25: in every reachable Mbc1 state, under any sequence of writes to
\* 0x0000-0x7FFF, the current ROM bank number is at least 1: the bank
\* mapped at 0x4000-0x7FFF is never bank 0.
C25_RomBankAtLeastOne ==
    /\ mbc.rom_bank >= 1
    /\ BusRead(M, 16384) # rom.data[0]

\* 0xE0, whose low five bits are 0, written to the ROM bank register
C25_Witness ==
    /\ op = "MbcWrite"
    /\ ev.addr = 8192
    /\ ev.val = 224
    /\ mbc.rom_bank = 1

\* C26: on an Mbc1 in ROM-banking mode a write of v to 0x4000-0x5FFF sets
\* bits 5-6 of the ROM bank number to v & 3, replacing what they were, and
\* leaves the low 5 bits unchanged; in RAM-banking mode the same write sets
\* the RAM bank to v & 3 and leaves the ROM bank unchanged.
C26_UpperBankBits ==
    [][(op' = "MbcWrite" /\ InRange(ev'.addr, 16384, 24575)) =>
          IF mbc.select_mode = "ROM"
          THEN /\ mbc'.rom_bank \div 32 = ev'.val % 4
               /\ mbc'.rom_bank % 32 = mbc.rom_bank % 32
          ELSE /\ mbc'.ram_bank = ev'.val % 4
               /\ mbc'.rom_bank = mbc.rom_bank]_vars

\* C27: after a write to 0x0000-0x1FFF cartridge RAM is enabled iff the
\* write's low nibble was 0xA; while enabled, a write of v to an address
\* in 0xA000-0xBFFF followed by a read of it returns v; while disabled,
\* reads of 0xA000-0xBFFF return 0 and writes leave the RAM contents
\* unchanged.
C27_RamEnable ==
    [][op' = "MbcWrite" =>
          /\ InRange(ev'.addr, 0, 8191) => (mbc'.enable_ram <=> ev'.val % 16 = 10)
          /\ ~InRange(ev'.addr, 0, 8191) => mbc'.enable_ram = mbc.enable_ram
          /\ (InRange(ev'.addr, 40960, 49151) /\ mbc.enable_ram)
                 => BusRead(M', ev'.addr) = ev'.val
          /\ (InRange(ev'.addr, 40960, 49151) /\ ~mbc.enable_ram) => mbc'.ram = mbc.ram
          /\ ~mbc'.enable_ram => \A a \in RamAddrs : BusRead(M', a) = 0]_vars

\* 0x42 written to 0xA000 while RAM is disabled: the write is dropped and
\* the byte reads 0
C27_Witness ==
    /\ op = "MbcWrite"
    /\ ev.addr = 40960
    /\ ev.val = 66
    /\ ~mbc.enable_ram
    /\ mbc.ram = EmptyMem
    /\ BusRead(M, 40960) = 0

(***************************************************************************)
(* The PPU with a filled sprite table (SpecOam): ticks through the OAM     *)
(* scan of a line and into the next line, with one sprite moved off the    *)
(* line by a write at any moment.  A layout is the bytes written before    *)
(* the first tick.                                                         *)
(***************************************************************************)
\* the sprite table holding the entries <<i, y_pos, x_pos>> of S, entry i
\* with tile number i, as the writes of their bytes leave it
OamImage(S) ==
    LET B == {b \in UNION {{<<4 * e[1], e[2]>>, <<4 * e[1] + 1, e[3]>>,
                             <<4 * e[1] + 2, e[1]>>} : e \in S} : b[2] # 0}
    IN [a \in {b[1] : b \in B} |-> (CHOOSE b \in B : b[1] = a)[2]]

\* thirteen 8x8 sprites on lines 0..7 but entry 2, which is eight lines
\* lower; and, in 8x16 mode, an entry too far left, one that starts above
\* the screen, one that starts on line 1, and the last entry of the table
OamLayouts ==
    {[lcd_control |-> 0,
      oam |-> OamImage({<<i, IF i = 2 THEN 24 ELSE 16, 16 + i>> : i \in 0..12})],
     [lcd_control |-> 4,
      oam |-> OamImage({<<0, 16, 8>>, <<1, 9, 9>>, <<5, 17, 100>>, <<39, 16, 200>>})]}

\* the PPU states a behaviour starts from: as constructed, and two dots
\* before the end of the frame
OamPpuStarts == {<<PpuNew, 0, 0>>, <<PpuFrameEnd, 153 * DotsPerLine + 454, 1>>}

\* the sprite table and LCD control written before the first tick
InitOam ==
    \E l \in OamLayouts : \E s \in OamPpuStarts :
        /\ InitMachine([GbNew(RomNop) EXCEPT
                           !.ppu = [s[1] EXCEPT !.oam = l.oam,
                                                !.lcd_control = l.lcd_control]])
        /\ pticks = s[2]
        /\ rises = s[3]

\* Ppu::tick
OamTickAct ==
    /\ nsteps < MaxOamTicks
    /\ ppu' = PpuTick(ppu)
    /\ op' = "PpuTick"
    /\ ev' = NoEv
    /\ nsteps' = nsteps + 1
    /\ pticks' = pticks + 1
    /\ rises' = rises + RisesOver(ppu, 1)
    /\ UNCHANGED <<cpu, bus, timer, joypad, mbc, rom, nops>>

\* Bus::write moving entry 3 off the screen
OamWriteAct ==
    /\ SetMachine(BusWrite(M, 65024 + 4 * 3, 0))
    /\ op' = "OamWrite"
    /\ ev' = [NoEv EXCEPT !.addr = 65024 + 4 * 3, !.val = 0]
    /\ UNCHANGED <<pticks, rises, nsteps, nops>>

NextOam ==
    \/ OamTickAct
    \/ OamWriteAct

SpecOam == InitOam /\ [][NextOam]_vars

(***************************************************************************)
(* Sprite selection (under SpecOam)                                        *)
(***************************************************************************)
\* entry e is on line `line` and far enough right
OnLine(e, line, tall) ==
    /\ e.x_pos > 8
    /\ e.y_pos <= line + 16
    /\ line + 16 < e.y_pos + (IF tall THEN 16 ELSE 8)

\* C30: in every reachable PPU state the per-line sprite buffer holds at
\* most 10 entries; during the OAM scan of a line (dots 0..79 of lines
\* 0..143) the sprite-table entries are examined in index order, one every
\* 2 dots; an entry that passes the x-position and vertical-overlap test is
\* kept only if fewer than 10 are already kept; an entry once kept is never
\* displaced on the same line; and the buffer is emptied when the next
\* line starts.
C30_SpriteBuffer ==
    [][/\ Len(ppu'.buffer) <= 10
       /\ op' = "PpuTick" =>
              LET old  == IF ppu'.cycles = 0 THEN <<>> ELSE ppu.buffer
                  scan == ppu'.lines < 144 /\ ppu'.cycles < 80 /\ ppu'.cycles % 2 = 0
                  e    == OamEntry(ppu', ppu'.cycles \div 2)
              IN IF scan /\ OnLine(e, ppu'.lines, SpriteSize(ppu')) /\ Len(old) < 10
                 THEN ppu'.buffer = Append(old, e)
                 ELSE ppu'.buffer = old
       /\ op' # "PpuTick" => ppu'.buffer = ppu.buffer]_vars

\* entry 12 has just been examined on line 0: it is on the line, ten
\* entries were kept before it, and it is left out
C30_Witness ==
    /\ op = "PpuTick"
    /\ ppu.lines = 0
    /\ ppu.cycles = 24
    /\ OnLine(OamEntry(ppu, 12), 0, FALSE)
    /\ Len(ppu.buffer) = 10
    /\ ppu.buffer[10].tile_num = 10

(***************************************************************************)
(* The emulator with Gb::reset called at any moment (SpecReset)            *)
(***************************************************************************)
\* Gb::reset
ResetAct ==
    /\ SetMachine(CpuReset(M))
    /\ op' = "Reset"
    /\ ev' = NoEv
    /\ UNCHANGED <<pticks, rises>>

NextReset ==
    \/ Step(CpuTickAct)
    \/ Step(GbTickAct)
    \/ Periph(ResetAct)
    \/ Periph(TimerTickAct(MaxCounter))

SpecReset == Init /\ [][NextReset]_vars

\* C29: after reset() from any reachable state (a halted CPU or one with
\* IME set included) A=0x11, F=0x80, BC=0, DE=0xFF56, HL=0x000D, SP=0xFFFE,
\* PC=0x0100, the interrupt-enable register is 0, TIMA=TMA=TAC=0, LCD
\* control is 0x91, the background palette 0xFC, and the CPU is running:
\* the next Cpu::tick fetches and executes the opcode at 0x0100.
C29_ResetPostBoot ==
    [][/\ op' = "Reset" =>
              /\ cpu'.a = 17 /\ cpu'.f = 128 /\ cpu'.bc = 0 /\ cpu'.de = 65366
              /\ cpu'.hl = 13 /\ cpu'.sp = 65534 /\ cpu'.pc = 256
              /\ BusRead(M', 65535) = 0
              /\ BusRead(M', 65285) = 0
              /\ BusRead(M', 65286) = 0
              /\ BusRead(M', 65287) = 0
              /\ BusRead(M', 65344) = 145
              /\ BusRead(M', 65351) = 252
              /\ ~cpu'.halt
       /\ (op = "Reset" /\ op' \in CpuOps) =>
              /\ ev'.src = -1
              /\ ev'.opecode = BusRead(M, 256)]_vars

(***************************************************************************)
(* The Joypad alone (SpecJoypad): the host presses and releases any key,   *)
(* the program writes the select bits and the interrupt flag register.     *)
(***************************************************************************)
\* bytes written to 0xFF00: both groups, one, none, and with other bits set
JoypadWrites == {0, 16, 32, 48, 207, 239, 223, 255}

JoypadWriteAct ==
    \E v \in JoypadWrites :
        /\ SetMachine(BusWrite(M, 65280, v))
        /\ op' = "JoypadWrite"
        /\ ev' = [NoEv EXCEPT !.addr = 65280, !.val = v]
        /\ UNCHANGED <<pticks, rises>>

KeyPressAct ==
    \E k \in JoypadKeys :
        /\ joypad' = JoypadPress(joypad, k)
        /\ op' = "JoypadPress"
        /\ ev' = [NoEv EXCEPT !.key = k]
        /\ UNCHANGED <<cpu, bus, ppu, timer, mbc, rom, pticks, rises>>

KeyReleaseAct ==
    \E k \in JoypadKeys :
        /\ joypad' = JoypadRelease(joypad, k)
        /\ op' = "JoypadRelease"
        /\ ev' = [NoEv EXCEPT !.key = k]
        /\ UNCHANGED <<cpu, bus, ppu, timer, mbc, rom, pticks, rises>>

NextJoypad ==
    \/ JoypadWriteAct /\ UNCHANGED <<nsteps, nops>>
    \/ KeyPressAct /\ UNCHANGED <<nsteps, nops>>
    \/ KeyReleaseAct /\ UNCHANGED <<nsteps, nops>>
    \/ WriteIrqAct /\ UNCHANGED <<nsteps, nops>>

SpecJoypad == InitNew /\ [][NextJoypad]_vars

(***************************************************************************)
(* Joypad register (under SpecJoypad)                                      *)
(***************************************************************************)
\* the latch of key k
Latch(j, k) ==
    CASE k = "A" -> j.a
      [] k = "B" -> j.b
      [] k = "Select" -> j.select
      [] k = "Start" -> j.start
      [] k = "Up" -> j.up
      [] k = "Down" -> j.down
      [] k = "Left" -> j.left
      [] k = "Right" -> j.right

\* the low nibble r shows keys k3..k0, a bit being 0 iff the key is pressed
ActiveLow(r, j, k3, k2, k1, k0) ==
    /\ (Bit(r, 3) = 0) = Latch(j, k3)
    /\ (Bit(r, 2) = 0) = Latch(j, k2)
    /\ (Bit(r, 1) = 0) = Latch(j, k1)
    /\ (Bit(r, 0) = 0) = Latch(j, k0)

\* C28: write(v) selects the direction group iff bit 4 of v is 0 and the
\* button group iff bit 5 of v is 0; read() then returns in its low nibble
\* the active-low state of the selected group (directions: Down, Up, Left,
\* Right; buttons: Start, Select, B, A; checked where exactly one group is
\* selected) and 0xFF when no group is selected; press(k) sets the latch of
\* k and the joypad interrupt flag; release(k) clears only the latch of k
\* and never changes the flag.
C28_JoypadRegister ==
    [][/\ op' = "JoypadWrite" =>
              /\ joypad'.direction = (Bit(ev'.val, 4) = 0)
              /\ joypad'.button = (Bit(ev'.val, 5) = 0)
              /\ \A k \in JoypadKeys : Latch(joypad', k) = Latch(joypad, k)
       /\ op' \in {"JoypadWrite", "JoypadPress", "JoypadRelease"} =>
              LET r == BusRead(M', 65280)
              IN /\ (joypad'.direction /\ ~joypad'.button) =>
                        ActiveLow(r, joypad', "Down", "Up", "Left", "Right")
                 /\ (joypad'.button /\ ~joypad'.direction) =>
                        ActiveLow(r, joypad', "Start", "Select", "B", "A")
                 /\ (~joypad'.button /\ ~joypad'.direction) => r = 255
       /\ op' = "JoypadPress" =>
              /\ Latch(joypad', ev'.key)
              /\ joypad'.int
              /\ \A k \in JoypadKeys \ {ev'.key} : Latch(joypad', k) = Latch(joypad, k)
       /\ op' = "JoypadRelease" =>
              /\ ~Latch(joypad', ev'.key)
              /\ joypad'.int = joypad.int
              /\ \A k \in JoypadKeys \ {ev'.key} : Latch(joypad', k) = Latch(joypad, k)
       /\ op' \in {"JoypadPress", "JoypadRelease"} =>
              /\ joypad'.direction = joypad.direction
              /\ joypad'.button = joypad.button]_vars

\* A released while B stays pressed, the button group selected and the
\* interrupt flag set: the low nibble reads 1101
C28_Witness ==
    /\ op = "JoypadRelease"
    /\ ev.key = "A"
    /\ joypad.int
    /\ joypad.b
    /\ ~joypad.a
    /\ joypad.button
    /\ ~joypad.direction
    /\ BusRead(M, 65280) % 16 = 13

(***************************************************************************)
(* Bus memory and Bus::tick (under SpecBus)                                *)
(***************************************************************************)
\* video RAM, work RAM and high RAM
InVram(addr) == InRange(addr, 32768, 40959)

InWram(addr) == InRange(addr, 49152, 57343)

InEcho(addr) == InRange(addr, 57344, 65023)

InHram(addr) == InRange(addr, 65408, 65534)

\* b is a itself or its image in the echo of work RAM
Aliased(a, b) ==
    \/ a = b
    \/ InWram(a) /\ b = a + 8192
    \/ InEcho(a) /\ b = a - 8192

\* the addresses of BusAddrs the claim is about
MemAddrs == {a \in BusAddrs : InVram(a) \/ InWram(a) \/ InEcho(a) \/ InHram(a)}

\* C22: for every address in work RAM, high RAM or video RAM and every
\* byte v, Bus::write(addr, v) followed by Bus::read(addr) returns v, also
\* after intervening writes to other, non-aliased addresses (no other
\* operation changes what a read returns) and regardless of PPU mode; a
\* write to work RAM at 0xC000+k (k < 0x1E00) is read back through the
\* echo address 0xE000+k, and a write through the echo is read back at
\* 0xC000+k.
C22_WriteReadRoundTrip ==
    [][/\ op' = "BusWrite" =>
              LET a == ev'.addr
              IN /\ (InVram(a) \/ InWram(a) \/ InHram(a)) => BusRead(M', a) = ev'.val
                 /\ (InWram(a) /\ a - 49152 < 7680) => BusRead(M', a + 8192) = ev'.val
                 /\ InEcho(a) => BusRead(M', a - 8192) = ev'.val
                 /\ \A b \in MemAddrs : ~Aliased(a, b) => BusRead(M', b) = BusRead(M, b)
       /\ op' \in {"BusTick", "PpuTick"} =>
              \A b \in MemAddrs : BusRead(M', b) = BusRead(M, b)]_vars

\* video RAM written while the PPU is drawing, after a write to the last
\* echoed byte of work RAM, which reads back through the echo
C22_Witness ==
    /\ op = "BusWrite"
    /\ nsteps = 2
    /\ ev.addr = 32768
    /\ ppu.mode = "Drawing"
    /\ BusRead(M, 32768) = 66
    /\ BusRead(M, 56831) = 255
    /\ BusRead(M, 65023) = 255

\* the position of the PPU in the frame, in dots
Position(p) == p.lines * DotsPerLine + p.cycles

\* C23: each call of Bus::tick advances the PPU by exactly 2 dots along
\* the 456x154 frame cycle and the timer's free-running counter by exactly
\* 4 (mod 2^16), in every state.
C23_BusTickAdvance ==
    [][op' = "BusTick" =>
          /\ Position(ppu') = (Position(ppu) + 2) % (DotsPerLine * LinesPerFrame)
          /\ ppu'.cycles < DotsPerLine
          /\ timer'.counter = (timer.counter + 4) % 65536]_vars

\* a Bus::tick has taken the PPU over the end of the frame and the counter
\* over 2^16, with the timer enabled
C23_Witness ==
    /\ op = "BusTick"
    /\ ppu.lines = 0
    /\ ppu.cycles = 0
    /\ timer.counter = 2
    /\ timer.enable

(***************************************************************************)
(* Instruction semantics (under SpecInstr)                                 *)
(***************************************************************************)
\* the last step and this one are Cpu::tick calls that took no interrupt
TwoTicks == op = "CpuTick" /\ op' = "CpuTick" /\ ev.src = -1 /\ ev'.src = -1

\* this step is a Cpu::tick that took no interrupt
OneTick == op' = "CpuTick" /\ ev'.src = -1

\* the flags of the next state
FlagsAre(z, n, h, c) ==
    /\ (Bit(cpu'.f, FlagZ) = 1) = z
    /\ (Bit(cpu'.f, FlagN) = 1) = n
    /\ (Bit(cpu'.f, FlagH) = 1) = h
    /\ (Bit(cpu'.f, FlagC) = 1) = c

\* everything but the Cpu is left as it was
OnlyCpuChanges == <<bus, ppu, timer, joypad, mbc, rom>>' = <<bus, ppu, timer, joypad, mbc, rom>>

\* C12: in every CPU state reachable from reset by any sequence of
\* instructions, POP AF with arbitrary stack contents included, the four
\* low bits of F are zero.
C12_FlagsLowNibbleZero == cpu.f % 16 = 0

\* the value of pair index (0 BC, 1 DE, 2 HL, 3 AF) in a Cpu record
PairOf(c, index) == R16([cpu |-> c], index, TRUE)

\* C13: for each pair rr of BC, DE, HL, AF and every value of it, with
\* SP-2 and SP-1 in writable RAM, PUSH rr followed immediately by POP rr
\* leaves rr with its original value and SP equal to its value before the
\* PUSH.
C13_PushPopRestores ==
    [][\A rr \in 0..3 :
          (/\ TwoTicks
           /\ ev.opecode = 197 + 16 * rr
           /\ ev'.opecode = 193 + 16 * rr
           /\ StackInRam(ev.cpu0.sp))
              => /\ PairOf(cpu', rr) = PairOf(ev.cpu0, rr)
                 /\ cpu'.sp = ev.cpu0.sp]_vars

\* PUSH AF; POP AF has run on A = 0xFF, F = 0xF0
C13_Witness ==
    /\ op = "CpuTick"
    /\ nsteps = 2
    /\ ev.opecode = 241
    /\ ev.cpu0.a = 255
    /\ ev.cpu0.f = 240
    /\ cpu.a = 255
    /\ cpu.f = 240
    /\ cpu.sp = 53248

\* the operand register of an ALU opcode
Operand(c, opecode) == R8([cpu |-> c], Field(opecode, 2, 0))

\* C14: for all 8-bit a, b: ADD A,b from A = a yields r = (a+b) mod 256
\* with Z = (r = 0), N = 0, H = ((a & 0xF) + (b & 0xF) > 0xF), C = (a+b >
\* 0xFF); a following SUB A,b recovers A = a with Z = (a = 0), N = 1,
\* H = ((r & 0xF) < (b & 0xF)), C = (r < b); and SUB then ADD of the same
\* operand recovers a.
C14_AddSubInverse ==
    [][\A index \in {0, 3} :
          LET a == cpu.a
              b == Operand(cpu, 128 + index)
          IN /\ (OneTick /\ ev'.opecode = 128 + index)
                    => /\ cpu'.a = (a + b) % 256
                       /\ FlagsAre(cpu'.a = 0, FALSE, (a % 16) + (b % 16) > 15, a + b > 255)
             /\ (TwoTicks /\ ev.opecode = 128 + index /\ ev'.opecode = 144 + index)
                    => /\ cpu'.a = ev.cpu0.a
                       /\ FlagsAre(ev.cpu0.a = 0, TRUE, (a % 16) < (b % 16), a < b)
             /\ (TwoTicks /\ ev.opecode = 144 + index /\ ev'.opecode = 128 + index)
                    => cpu'.a = ev.cpu0.a]_vars

\* ADD A,B; SUB A,B has run on a = b = 0xFF, where the sum wraps
C14_Witness ==
    /\ op = "CpuTick"
    /\ nsteps = 2
    /\ ev.opecode = 144
    /\ ev.cpu0.a = 254
    /\ Hi(cpu.bc) = 255
    /\ cpu.a = 255

\* C15: for all 8-bit a and x, CP A,r and CP A,n with A = a and operand x
\* leave A unchanged and set Z = (a = x), N = 1, H = ((a & 0xF) < (x &
\* 0xF)), C = (a < x), the two forms giving identical flags.
C15_CompareFlags ==
    [][(OneTick /\ ev'.opecode \in {184, 187, 254})
          => LET a == cpu.a
                 x == IF ev'.opecode = 254 THEN BusRead(M, U16(cpu.pc + 1))
                      ELSE Operand(cpu, ev'.opecode)
             IN /\ cpu'.a = a
                /\ FlagsAre(a = x, TRUE, (a % 16) < (x % 16), a < x)]_vars

\* the condition cc (0 NZ, 1 Z, 2 NC, 3 C) on a flags byte
CondHolds(f, cc) ==
    CASE cc = 0 -> Bit(f, FlagZ) = 0
      [] cc = 1 -> Bit(f, FlagZ) = 1
      [] cc = 2 -> Bit(f, FlagC) = 0
      [] cc = 3 -> Bit(f, FlagC) = 1

\* the Cpu is as before but for pc and sp
CpuMoves(pc, sp) == cpu' = [cpu EXCEPT !.pc = pc, !.sp = sp]

\* C16: a conditional JP, JR, CALL or RET whose condition is false only
\* advances PC past the opcode and its operand bytes (3, 2, 3, 1 bytes) and
\* leaves SP, memory and flags unchanged; when the condition is true PC
\* becomes the target (nn; the post-operand PC plus the sign-extended e;
\* the popped address) and CALL and RET move SP by exactly 2.
C16_ConditionalTransfers ==
    [][\A cc \in 0..3 :
          LET taken == CondHolds(cpu.f, cc)
              nn    == BusReadWord(M, U16(cpu.pc + 1))
              e     == BusRead(M, U16(cpu.pc + 1))
          IN /\ (OneTick /\ ev'.opecode = 194 + 8 * cc)
                    => /\ CpuMoves(IF taken THEN nn ELSE U16(cpu.pc + 3), cpu.sp)
                       /\ OnlyCpuChanges
             /\ (OneTick /\ ev'.opecode = 32 + 8 * cc)
                    => /\ CpuMoves(IF taken THEN U16(cpu.pc + 2 + SignExtend(e))
                                   ELSE U16(cpu.pc + 2), cpu.sp)
                       /\ OnlyCpuChanges
             /\ (OneTick /\ ev'.opecode = 196 + 8 * cc)
                    => IF taken
                       THEN CpuMoves(nn, U16(cpu.sp + 65534))
                       ELSE CpuMoves(U16(cpu.pc + 3), cpu.sp) /\ OnlyCpuChanges
             /\ (OneTick /\ ev'.opecode = 192 + 8 * cc)
                    => /\ IF taken
                          THEN CpuMoves(BusReadWord(M, cpu.sp), U16(cpu.sp + 2))
                          ELSE CpuMoves(U16(cpu.pc + 1), cpu.sp)
                       /\ OnlyCpuChanges]_vars

\* JR NZ with Z set has run and fallen through to the next instruction
C16_Witness ==
    /\ op = "CpuTick"
    /\ nsteps = 1
    /\ ev.opecode = 32
    /\ Bit(cpu.f, FlagZ) = 1
    /\ cpu.pc = InstrBase + 2

\* C17: RST with field n acts as a CALL to 8*n: SP goes down by 2, the
\* address after the opcode is stored as a word at the new SP, and PC
\* becomes 8*n.
C17_RestartIsCall ==
    [][\A n \in 0..7 :
          (OneTick /\ ev'.opecode = 199 + 8 * n /\ StackInRam(cpu.sp))
              => /\ cpu'.sp = U16(cpu.sp + 65534)
                 /\ BusReadWord(M', cpu'.sp) = U16(cpu.pc + 1)
                 /\ cpu'.pc = 8 * n]_vars

\* C18: with the stack in writable RAM and a callee that leaves the stack
\* balanced, CALL nn or a taken CALL cc followed by RET returns to the
\* address after the 3-byte CALL with SP as before the CALL; an interrupt
\* dispatch followed by RETI restores PC and SP and leaves IME set.
C18_CallReturns ==
    [][/\ (/\ TwoTicks
           /\ ev.opecode \in {205, 196, 204, 212, 220}
           /\ cpu.pc = InstrCallee
           /\ ev'.opecode = 201
           /\ StackInRam(ev.cpu0.sp))
              => /\ cpu'.pc = U16(ev.cpu0.pc + 3)
                 /\ cpu'.sp = ev.cpu0.sp
       /\ (op' = "CpuTick" /\ ev'.src # -1 /\ ev'.opecode = 217 /\ StackInRam(cpu.sp))
              => /\ cpu'.pc = cpu.pc
                 /\ cpu'.sp = cpu.sp
                 /\ cpu'.ime]_vars

\* CALL NC taken with SP = 0xD000, then RET, is back after the CALL
C18_Witness ==
    /\ op = "CpuTick"
    /\ nsteps = 2
    /\ ev.opecode = 201
    /\ ev.cpu0.pc = InstrCallee
    /\ BusRead(M, InstrBase) = 212
    /\ cpu.pc = InstrBase + 3
    /\ cpu.sp = 53248

\* C19: RLCA and RRCA give the same A and C as RLC A and RRC A for every
\* input: after RLCA bit 0 of A is the old bit 7, which is also C; after
\* RRCA bit 7 of A is the old bit 0, which is also C; N and H are cleared.
C19_AccumulatorRotates ==
    [][/\ (OneTick /\ ev'.opecode = 7)
              => /\ cpu'.a = Rlc8R(M, 7).cpu.a
                 /\ Bit(cpu'.f, FlagC) = Bit(Rlc8R(M, 7).cpu.f, FlagC)
                 /\ Bit(cpu'.a, 0) = Bit(cpu.a, 7)
                 /\ Bit(cpu'.f, FlagC) = Bit(cpu.a, 7)
                 /\ Bit(cpu'.f, FlagN) = 0
                 /\ Bit(cpu'.f, FlagH) = 0
       /\ (OneTick /\ ev'.opecode = 15)
              => /\ cpu'.a = Rrc8R(M, 7).cpu.a
                 /\ Bit(cpu'.f, FlagC) = Bit(Rrc8R(M, 7).cpu.f, FlagC)
                 /\ Bit(cpu'.a, 7) = Bit(cpu.a, 0)
                 /\ Bit(cpu'.f, FlagC) = Bit(cpu.a, 0)
                 /\ Bit(cpu'.f, FlagN) = 0
                 /\ Bit(cpu'.f, FlagH) = 0]_vars

\* C20: for every SP and signed 8-bit n, ADD SP,n and LD HL,SP+n both
\* compute SP + sign-extended n (mod 2^16), clear Z and N, and set H to the
\* carry out of bit 11 and C to the carry out of bit 15 of that addition.
C20_SpPlusImmediate ==
    [][(OneTick /\ ev'.opecode \in {232, 248})
          => LET n   == SignExtend(BusRead(M, U16(cpu.pc + 1)))
                 sum == U16(cpu.sp + n)
             IN /\ ev'.opecode = 232 => cpu'.sp = sum
                /\ ev'.opecode = 248 => (cpu'.hl = sum /\ cpu'.sp = cpu.sp)
                /\ FlagsAre(FALSE, FALSE, (cpu.sp % 4096) + (n % 4096) > 4095,
                            cpu.sp + n > 65535)]_vars

\* C21: with the CPU not halted and no interrupt taken, LD A,n then INC A
\* in two steps leaves A = (n+1) mod 256, Z = (n = 0xFF), N clear,
\* H = ((n & 0x0F) = 0x0F), C unchanged, and PC advanced by 3; for n = 0x05
\* this gives A = 0x06 with Z, N and H clear.
C21_LoadThenIncrement ==
    [][(TwoTicks /\ ev.opecode = 62 /\ ev'.opecode = 60 /\ ~ev.cpu0.halt)
          => LET n == BusRead(M, U16(ev.cpu0.pc + 1))
             IN /\ cpu'.a = (n + 1) % 256
                /\ FlagsAre(n = 255, FALSE, n % 16 = 15, Bit(ev.cpu0.f, FlagC) = 1)
                /\ cpu'.pc = U16(ev.cpu0.pc + 3)
                /\ n = 5 => (cpu'.a = 6 /\ Bit(cpu'.f, FlagZ) = 0 /\ Bit(cpu'.f, FlagN) = 0
                                /\ Bit(cpu'.f, FlagH) = 0)]_vars

\* LD A,0x05; INC A has run with every flag set beforehand
C21_Witness ==
    /\ op = "CpuTick"
    /\ nsteps = 2
    /\ ev.opecode = 60
    /\ BusRead(M, InstrBase + 1) = 5
    /\ cpu.a = 6
    /\ cpu.f = 16
    /\ cpu.pc = InstrBase + 3

(***************************************************************************)
(* Register writes of the timer (under SpecTimer)                          *)
(***************************************************************************)
SyncingOps == {"TimerTick", "WriteTima", "WriteTma"}

\* C31: write_div resets the whole counter to 0 (read_div then returns 0),
\* and when the timer was enabled with its selected counter bit at 1 before
\* the write, the next tick, write_tima or write_tma detects the 1-to-0
\* edge, a tick leaving TIMA incremented by one.
C31_DivWriteKeepsEdge ==
    [][/\ op' = "WriteDiv" => (timer'.counter = 0 /\ TimerReadDiv(timer') = 0)
       /\ (op = "WriteDiv" /\ ev.armed /\ op' \in SyncingOps)
              => /\ ev'.edge
                 /\ op' = "TimerTick" => timer'.tima = U8(timer.tima + 1)]_vars

\* C32: write_tima(v) and write_tma(v) run the edge detection before
\* storing v: after write_tima(v) TIMA is v, after write_tma(v) TMA is v,
\* and an overflow reload triggered inside write_tma(v) loads TIMA from the
\* TMA held before the write.
C32_SyncBeforeStore ==
    [][/\ op' = "WriteTima" => timer'.tima = ev'.val
       /\ op' = "WriteTma" => timer'.tma = ev'.val
       /\ (op' = "WriteTma" /\ ev'.reloaded) => timer'.tima = timer.tma]_vars

(***************************************************************************)
(* The halted CPU (SpecHalt).  The program enables the sources in ie,      *)
(* raises those in irq, executes EI or NOP, and halts; RETI is the byte at *)
(* the vectors.  The host presses a key and the interrupt flag register is *)
(* written while the CPU is halted.                                        *)
(***************************************************************************)
\* LD A,ie; LDH (0xFF),A; LD A,irq; LDH (0x0F),A; EI or NOP; HALT
ProgHalt(ie, irq, ei) == <<62, ie, 224, 255, 62, irq, 224, 15, ei, 118>>

HaltEnables == {0, 1, 3, 16, 31}

HaltRaises == {0, 1, 2, 16, 31}

HaltPrograms ==
    {RomImage(ProgHalt(ie, irq, ei), 217) :
        ie \in HaltEnables, irq \in HaltRaises, ei \in {251, 0}}

InitHalt ==
    /\ \E r \in HaltPrograms : InitMachine(CpuReset(GbNew(r)))
    /\ pticks = 0
    /\ rises = 0

NextHalt ==
    \/ Step(CpuTickAct)
    \/ Step(GbTickAct)
    \/ Periph(JoypadPressAct)
    \/ Periph(WriteIrqAct)

SpecHalt == InitHalt /\ [][NextHalt]_vars

\* the registers the program can observe
Registers(c) == <<c.a, c.f, c.bc, c.de, c.hl, c.sp, c.pc, c.ime>>

\* C33: a Cpu::tick of a halted CPU that takes no interrupt changes no
\* register, writes nothing through the bus and leaves the CPU halted; the
\* halted flag is cleared only by a tick that takes an interrupt, and a CPU
\* halted with IME clear stays so over every operation, whatever is pending.
C33_HaltedTickIsNoOp ==
    [][/\ (op' \in CpuOps /\ cpu.halt /\ ev'.src = -1)
              => /\ Registers(cpu') = Registers(cpu)
                 /\ ev'.writes = {}
                 /\ cpu'.halt
                 /\ op' = "CpuTick" => UNCHANGED <<bus, ppu, timer, joypad, mbc>>
       /\ (cpu.halt /\ ~cpu'.halt) => (op' \in CpuOps /\ ev'.src # -1)
       /\ (cpu.halt /\ ~cpu.ime) => (cpu'.halt /\ ~cpu'.ime)]_vars

\* a halted CPU with IME clear has been ticked with the vertical-blank
\* interrupt pending and enabled
C33_Witness ==
    /\ op = "CpuTick"
    /\ ev.pre.halt
    /\ ~ev.pre.ime
    /\ 0 \in ev.ready
    /\ cpu.halt

(***************************************************************************)
(* Interrupt priority (under Spec)                                         *)
(***************************************************************************)
\* C35: a Cpu::tick takes at most one interrupt, and only with IME set: it
\* clears that source's pending flag alone and pushes one return address;
\* with IME set and both vertical-blank and LCD-status pending and enabled
\* it takes vertical-blank (vector 0x40), clears IME and leaves LCD-status
\* pending.
C35_OneInterruptPerTick ==
    [][op' \in CpuOps =>
          /\ ev'.src # -1 =>
                /\ cpu.ime
                /\ ~ev'.mid.ime
                /\ ev'.mid.sp = U16(cpu.sp + 65534)
                /\ ev'.mid.pc = IntVector(ev'.src)
                /\ \A s \in 0..4 :
                      Bit(ev'.mid.irq, s) = IF s = ev'.src THEN 0 ELSE Bit(ReadIrq(M), s)
          /\ (cpu.ime /\ {0, 1} \subseteq Ready(M)) => ev'.src = 0]_vars

\* a tick that found both sources pending and enabled took vertical-blank
\* and left LCD-status pending
C35_Witness ==
    /\ op \in CpuOps
    /\ {0, 1} \subseteq ev.ready
    /\ ev.src = 0
    /\ ev.mid.pc = 64
    /\ Bit(ev.mid.irq, 1) = 1
    /\ Bit(ev.mid.irq, 0) = 0

(***************************************************************************)
(* The halted CPU under repeated Gb::tick (SpecHaltRun).  After reset the  *)
(* program enables vertical-blank, clears the pending flags, executes EI   *)
(* and halts.  The PPU starts as constructed, at the end of line 143, or   *)
(* near the end of line 144, so that the program clears the flag just      *)
(* after the vertical blank has begun; the timer counter has counted twice *)
(* per PPU tick.  nops counts the Gb::tick calls made in a row on a halted *)
(* CPU.                                                                    *)
(***************************************************************************)
PpuVBlankLate == [PpuFrameEnd EXCEPT !.lines = VBlankLine, !.cycles = 450]

HaltRunPpuStarts ==
    {<<PpuNew, 0, 0>>, <<PpuLate, PpuLateTicks, 0>>,
     <<PpuVBlankLate, VBlankLine * DotsPerLine + 450, 1>>}

HaltRunProgram == RomImage(ProgHalt(1, 0, 251), 217)

InitHaltRun ==
    \E s \in HaltRunPpuStarts :
        /\ InitMachine(CpuReset([GbNew(HaltRunProgram) EXCEPT
                                    !.ppu = s[1], !.timer.counter = U16(2 * s[2])]))
        /\ pticks = s[2]
        /\ rises = s[3]

HaltRunTickAct ==
    /\ nsteps < MaxHaltRunTicks
    /\ GbTickAct
    /\ nsteps' = nsteps + 1
    /\ nops' = IF cpu.halt THEN nops + 1 ELSE 0

NextHaltRun == HaltRunTickAct

\* the condition under which a further Gb::tick is taken
HaltRunEnabled == nsteps < MaxHaltRunTicks /\ Fetchable(CpuTick(M))

\* weak fairness of the tick, WF_vars(NextHaltRun), with the enabling
\* condition of the action written as the state predicate HaltRunEnabled
HaltRunFair == []<>(~HaltRunEnabled) \/ []<><<NextHaltRun>>_vars

SpecHaltRun == InitHaltRun /\ [][NextHaltRun]_vars /\ HaltRunFair

\* C34: a CPU halted with IME set and vertical-blank enabled leaves the
\* halted state under repeated Gb::tick, after at most one frame of ticks
\* (456*154/2): the PPU raises the pending flag and the next Cpu::tick
\* takes the interrupt.
C34_HaltEnds ==
    /\ (cpu.halt /\ cpu.ime /\ IeBit(M, 0)) ~> (~cpu.halt /\ ev.src = 0)
    /\ []((cpu.halt /\ cpu.ime /\ IeBit(M, 0)) => 2 * nops <= FrameTicks)
    /\ [][(op' = "GbTick" /\ cpu.halt /\ cpu.ime /\ IeBit(M, 0) /\ Irq(M, 0))
              => (ev'.src = 0 /\ ~cpu'.halt)]_vars

\* the halted CPU has been woken by the vertical blank, the flag having
\* been raised while it was halted
C34_Witness ==
    /\ op = "GbTick"
    /\ ev.pre.halt
    /\ ev.pre.ime
    /\ ev.src = 0
    /\ ~cpu.halt
    /\ nops > 0

(***************************************************************************)
(* LD (nn),SP and DAA (under SpecInstr)                                    *)
(***************************************************************************)
\* C36: LD (nn),SP stores SP to memory: afterwards the byte at nn is the
\* low byte of SP and the byte at nn+1 the high byte, SP and the flags are
\* unchanged, and PC has advanced past the two operand bytes.
C36_StoreSp ==
    [][(OneTick /\ ev'.opecode = 8)
          => LET nn == BusReadWord(M, U16(cpu.pc + 1))
             IN /\ BusRead(M', nn) = cpu.sp % 256
                /\ BusRead(M', U16(nn + 1)) = cpu.sp \div 256
                /\ cpu'.sp = cpu.sp
                /\ cpu'.f = cpu.f
                /\ cpu'.pc = U16(cpu.pc + 3)]_vars

\* the number a packed-BCD byte encodes, and the encoding of a number
BcdValue(b) == (b \div 16) * 10 + (b % 16)

BcdByte(v) == (v \div 10) * 16 + (v % 10)

\* C37: for packed-BCD bytes x and y, ADD A,y from A = x followed by DAA
\* leaves A the packed-BCD encoding of (x+y) mod 100, with C set iff the
\* decimal sum exceeds 99; and DAA with N, H and C clear and both nibbles of
\* A at most 9 leaves A unchanged.
C37_DecimalAdjust ==
    [][/\ (TwoTicks /\ ev.opecode = 128 /\ ev'.opecode = 39
               /\ ev.cpu0.a \in BcdBytes /\ ev.cpu0.bc \div 256 \in BcdBytes)
              => LET sum == BcdValue(ev.cpu0.a) + BcdValue(ev.cpu0.bc \div 256)
                 IN /\ cpu'.a = BcdByte(sum % 100)
                    /\ (Bit(cpu'.f, FlagC) = 1) = (sum > 99)
       /\ (OneTick /\ ev'.opecode = 39 /\ cpu.a \in BcdBytes
               /\ ~Flag(M, FlagN) /\ ~Flag(M, FlagH) /\ ~Flag(M, FlagC))
              => cpu'.a = cpu.a]_vars

(***************************************************************************)
(* Sprite drawing (SpecSprite): the constructed PPU with sprites enabled,  *)
(* four sprites side by side on line 0, tile data that tells the tile and  *)
(* the row, and the identity palette, ticked through the line.             *)
(***************************************************************************)
\* the tiles the sprites can select
SpriteTiles == {0, 1, 2, 3, 128, 129}

\* tile data: the first byte of row r of tile k is k, the second r + 1
TileImage ==
    [a \in {16 * k + 2 * r : k \in SpriteTiles \ {0}, r \in 0..7}
            \cup {16 * k + 2 * r + 1 : k \in SpriteTiles, r \in 0..7} |->
        IF a % 2 = 0 THEN a \div 16 ELSE ((a % 16) \div 2) + 1]

\* the sprite table holding the entries <<i, y_pos, x_pos, tile_num>> of S
SpriteTable(S) ==
    LET B == {b \in UNION {{<<4 * e[1], e[2]>>, <<4 * e[1] + 1, e[3]>>,
                             <<4 * e[1] + 2, e[4]>>} : e \in S} : b[2] # 0}
    IN [a \in {b[1] : b \in B} |-> (CHOOSE b \in B : b[1] = a)[2]]

\* 8x8 sprites on rows 0 and 7, and 8x16 sprites on rows 0, 8 and 15, with
\* odd and even tile numbers below and above 128
SpriteLayouts ==
    {[lcd_control |-> 2,
      oam |-> SpriteTable({<<1, 16, 16, 1>>, <<2, 9, 32, 2>>, <<3, 16, 48, 129>>,
                           <<4, 16, 64, 128>>})],
     [lcd_control |-> 6,
      oam |-> SpriteTable({<<1, 16, 16, 1>>, <<2, 8, 32, 2>>, <<3, 16, 48, 129>>,
                           <<4, 1, 64, 128>>})]}

InitSprite ==
    /\ \E l \in SpriteLayouts :
           InitMachine([GbNew(RomNop) EXCEPT
                           !.ppu = [PpuNew EXCEPT !.oam = l.oam, !.vram = TileImage,
                                                  !.lcd_control = l.lcd_control,
                                                  !.object_palette_0 = PaletteFrom(228)]])
    /\ pticks = 0
    /\ rises = 0

NextSprite == OamTickAct

SpecSprite == InitSprite /\ [][NextSprite]_vars

\* the tile and the row of it that show on the current line for entry e
ShownTile(p, e) ==
    LET row == p.y + 16 - e.y_pos
    IN IF ~SpriteSize(p) THEN [tile |-> e.tile_num, row |-> row]
       ELSE IF row < 8 THEN [tile |-> e.tile_num - (e.tile_num % 2), row |-> row]
       ELSE [tile |-> e.tile_num + 1 - (e.tile_num % 2), row |-> row - 8]

\* C38: when a buffered sprite is drawn, the pixel row decoded is that of
\* tile t (all 8 bits) in 8x8 mode, and in 8x16 mode of tile t & 0xFE for
\* the upper 8 rows and t | 0x01 for the lower 8 rows, t being the entry's
\* tile index.
C38_SpriteTileIndex ==
    [][(op' = "PpuTick" /\ ppu'.mode = "Drawing" /\ SpriteEnable(ppu'))
          => \A k \in 1..Len(ppu'.buffer) :
                LET e == ppu'.buffer[k]
                    t == ShownTile(ppu', e)
                IN (e.x_pos = ppu'.x + 8 /\ e.sprite_flag = 0)
                      => \A j \in 1..8 :
                            OamLineRd(ppu'.oam_line, ppu'.x + j - 1) =
                                FromIndexes(TileToIndexes(ppu', t.tile, t.row, FALSE),
                                            FALSE, ppu'.object_palette_0)[j]]_vars

(***************************************************************************)
(* The cartridge RAM of a fresh Mbc1 (under SpecMbc)                       *)
(***************************************************************************)
\* C39: on a freshly constructed Mbc1, before any write to 0x0000-0x1FFF
\* with low nibble 0xA, cartridge RAM is disabled: reads of 0xA000-0xBFFF
\* return 0 and writes to that window are dropped; the RAM becomes
\* accessible only through such a write.
C39_FreshRamDisabled ==
    /\ ~mbc.enable_ram
    /\ \A a \in RamAddrs : BusRead(M, a) = 0
    /\ [][op' = "MbcWrite" =>
             /\ (~mbc.enable_ram /\ InRange(ev'.addr, 40960, 49151)) =>
                    /\ mbc'.ram = mbc.ram
                    /\ BusRead(M', ev'.addr) = 0
             /\ (~mbc.enable_ram /\ mbc'.enable_ram) =>
                    /\ InRange(ev'.addr, 0, 8191)
                    /\ ev'.val % 16 = 10]_vars

(***************************************************************************)
(* An Mbc1 cartridge of the smallest size, two banks of 16 KiB             *)
(* (SpecMbcSmall).  rom.data holds rom.size bytes; a read at an index of   *)
(* rom.size or more is outside the vector and ends the program.            *)
(***************************************************************************)
RomMbc1Small ==
    [mbc_type |-> "Mbc1", size |-> 2 * RomBankSize,
     data |-> [i \in {b * RomBankSize + k : b \in 0..1, k \in BankOffsets} |->
                  (i \div RomBankSize) * 2 + (i % 2)]]

InitMbcSmall ==
    /\ InitMachine(GbNew(RomMbc1Small))
    /\ pticks = 0
    /\ rises = 0

NextMbcSmall == MbcWriteAct

SpecMbcSmall == InitMbcSmall /\ [][NextMbcSmall]_vars

\* C40: for an Mbc1 cartridge whose ROM data has its declared size S, after
\* any sequence of bank-register writes every read in 0x4000-0x7FFF takes
\* its byte from inside the ROM data (bank*16384 + (addr-0x4000) < S), and
\* every cartridge-RAM access takes its byte from inside the 32 KiB RAM
\* array (ram_bank*8192 + (addr-0xA000) < 32768).
C40_IndexInRange ==
    /\ \A k \in BankOffsets : RomIndex(mbc, 16384 + k) < rom.size
    /\ \A a \in RamAddrs : RamIndex(mbc, a) < RamSize

=============================================================================
